---- MODULE Spec2Model ----
(***************************************************************************)
(* Asset discovery, caching and rate limiting of the delta-share           *)
(* compliance backend (backend/services/databricksClient.js and the        *)
(* routes that call it), as a state machine.                               *)
(*                                                                         *)
(* Node.js runs every handler to its next await without interleaving, so   *)
(* one action is one such run-to-completion segment: the synchronous code  *)
(* between two awaits, together with the promise reactions it triggers.    *)
(***************************************************************************)
EXTENDS Integers, Sequences, FiniteSets, TLC

VARIABLES
  now,             \* Date.now(), in clock ticks
  agreements,      \* agreementsStore: the stored agreements
  assetsEntry,     \* cache entry all_assets:<env>  (data is a reference to a crawl's array)
  metadata,        \* cache entry all_assets:<env>:metadata
  activeRequests,  \* activeRequests entry fetch_assets:<env>
  crawls,          \* the _fetchAllAssets invocations, by id
  calls,           \* history: the getAllShareTables calls made so far
  sinceLastRequest, \* Date.now() - lastRequestTime, in ms
  consecutiveErrors, \* module variable consecutiveErrors
  reqs,            \* the rateLimitedRequest invocations, by id
  selIn,           \* inputs of the catalog selection under test
  selOut,          \* its result
  listEntries,     \* cache entries of the list operations, by operation
  listCalls,       \* history: the list-operation calls made so far
  remoteVersion,   \* version of the data the remote service holds
  valIn,           \* inputs of validateAsset under test
  valOut,          \* its result
  validationCache, \* validationCache of routes/validation.js, by cache key
  handlers,        \* the validation route requests, by id
  fetch,           \* the schema loop of a crawl under test
  volumeFiles,     \* the agreement files of the central volume, by share
  volumeLoadCache, \* volumeLoadCache of routes/agreements.js
  volumeAgreementsLoaded, \* volumeAgreementsLoaded of routes/agreements.js
  listed           \* history: the bodies of the GET /agreements responses

mainVars == <<now, agreements, assetsEntry, metadata, activeRequests, crawls, calls>>
rlVars == <<sinceLastRequest, reqs>>
selVars == <<selIn, selOut>>
listVars == <<listEntries, listCalls, remoteVersion>>
valVars == <<valIn, valOut>>
routeVars == <<validationCache, handlers>>
fetchVars == <<fetch>>
storeVars == <<volumeFiles, volumeLoadCache, volumeAgreementsLoaded, listed>>
sideVars == <<selVars, listVars, valVars, routeVars, fetchVars, storeVars>>
vars == <<mainVars, consecutiveErrors, rlVars, sideVars>>
notMain == <<consecutiveErrors, rlVars, sideVars>>

-----------------------------------------------------------------------------
(* Bounds of the model *)

MaxCalls == 2       \* getAllShareTables calls per behaviour
MaxTime == 1        \* clock ticks per behaviour
MaxListing == 3     \* catalogs in a listing given to the selection
MaxPriority == 2    \* names in a priority list given to the selection
MaxCap == 3         \* largest MAX_CATALOGS the selection is run with
MaxReqs == 2        \* rateLimitedRequest calls per behaviour
MaxListCalls == 2   \* list-operation calls per behaviour
MaxVersion == 1     \* changes of the remote data per behaviour

(* Configuration.  MAX_CATALOGS and MAX_SCHEMAS_PER_CATALOG are read from  *)
(* the process environment (defaults 10 and 5); the model runs the         *)
(* configuration MAX_CATALOGS=2, MAX_SCHEMAS_PER_CATALOG=2.  CACHE_TTL is  *)
(* 5 minutes; one clock tick of `now` is 5 minutes.                        *)
MAX_CATALOGS == 2
MAX_SCHEMAS_PER_CATALOG == 2
CACHE_TTL == 1

(* The request limiter, in ms *)
MIN_REQUEST_INTERVAL == 300     \* line 39
DEFAULT_RETRIES == 3            \* line 42: retries = 3
BACKOFF_BASE == 1000            \* line 62
BACKOFF_CAP == 8000             \* line 62

(* Time.  The limiter reads the clock only as Date.now() - lastRequestTime *)
(* and through its timers, so the model keeps that difference and, for     *)
(* each sleeping request, the time left until its timer is due.  The       *)
(* difference matters only below the largest adaptive delay; it is kept    *)
(* up to that value (lastRequestTime starts at 0, far in the past).        *)
Saturation == MIN_REQUEST_INTERVAL * (1 + DEFAULT_RETRIES * MaxReqs)


Envs == {"e1"}
Endpoints == {"shares", "overview"}
AssetTypes == {"table", "volume", "function", "model"}

Min(a, b) == IF a < b THEN a ELSE b
Max(a, b) == IF a > b THEN a ELSE b

-----------------------------------------------------------------------------
(* The remote Unity Catalog service: what the list calls return when they  *)
(* succeed (listings already filtered of internal names).  The list        *)
(* operations' own cache entries (catalogs:, schemas:, tables:, ...) are   *)
(* not kept: a list call is a step of the crawl whether the service or     *)
(* such an entry answers it, and it answers the same either way.           *)

RemoteCatalogs(env) ==
  IF env = "e1" THEN <<"sales", "ops", "hr">> ELSE <<"fin">>

RemoteSchemas(cat) ==
  CASE cat = "sales" -> <<"s1", "s2", "s3">>
    [] cat = "fin" -> <<"s1">>
    [] OTHER -> <<>>

RemoteAssets(cat, sch, type) ==
  CASE type = "table" -> <<"t">>
    [] type = "volume" /\ cat = "sales" -> <<"v">>
    [] OTHER -> <<>>

(* String.prototype.toLowerCase on the names that occur. *)
UpperCased == ("HR" :> "hr") @@ ("Sales" :> "sales") @@ ("OPS" :> "ops")
toLowerCase(s) == IF s \in DOMAIN UpperCased THEN UpperCased[s] ELSE s

SelectSeqBy(seq, Test(_)) == SelectSeq(seq, Test)
Take(seq, n) == SubSeq(seq, 1, Min(n, Len(seq)))     \* Array.prototype.slice(0, n)

(* Map operations on the caches: a Map is a function whose domain is the   *)
(* set of keys present.                                                    *)
MapSet(m, k, v) == (k :> v) @@ m
MapDelete(m, k) == [x \in DOMAIN m \ {k} |-> m[x]]
EmptyMap == <<>>

(* obj.f <= obj.g as JavaScript evaluates it: false when a property is    *)
(* missing (undefined compares as NaN).                                    *)
PropLeq(obj, f, g) == f \in DOMAIN obj /\ g \in DOMAIN obj /\ obj[f] <= obj[g]

-----------------------------------------------------------------------------
(* agreementsStore and the priority list GET /shares derives from it *)

TagRequirement ==      \* agreements.js lines 629-637
  [requiredTags |-> << <<"pii", "true">> >>, scope |-> "all", severity |-> "critical"]
StoredAgreement(id, share) ==
  [id |-> id, environments |-> <<"e1">>, shares |-> <<share>>,
   parsedRequirements |-> <<TagRequirement>>]

AgreementStores == { <<StoredAgreement("a1", "hr")>> }

(* agreements.js line 17: 2 minutes, less than one clock tick, so that an  *)
(* entry of volumeLoadCache is fresh exactly in the tick it was loaded in  *)
VOLUME_CACHE_TTL == 1
(* the files <share>_agreement.txt of /Volumes/main/default/agreements *)
VolumeFilesAtStart == <<"sales">>

RECURSIVE FlatShares(_)
FlatShares(ags) ==
  IF ags = <<>> THEN <<>> ELSE Head(ags).shares \o FlatShares(Tail(ags))

RECURSIVE Unique(_)
Unique(seq) ==       \* [...new Set(seq)]: first occurrences, in order
  IF seq = <<>> THEN <<>>
  ELSE LET init == Unique(SubSeq(seq, 1, Len(seq) - 1))
           last == seq[Len(seq)]
       IN IF \E i \in 1..Len(init) : init[i] = last THEN init ELSE Append(init, last)

(* The priorityCatalogs argument each endpoint passes to getAllShareTables *)
PriorityArgOf(ep, ags) ==
  IF ep = "shares" THEN Unique(FlatShares(ags)) ELSE <<>>

-----------------------------------------------------------------------------
(* _fetchAllAssets, lines 612-627: the catalogs a crawl will scan *)

IsPriority(name, priorityCatalogs) ==
  \E i \in 1..Len(priorityCatalogs) : toLowerCase(priorityCatalogs[i]) = toLowerCase(name)

(* a selection that takes the first `max` catalogs of the listing *)
SelectCatalogsUnprioritized(catalogs, priorityCatalogs, max) == Take(catalogs, max)

SelectCatalogs(catalogs, priorityCatalogs, max) ==
  LET prioritizedCatalogs == SelectSeqBy(catalogs, LAMBDA n : IsPriority(n, priorityCatalogs))
      otherCatalogs == SelectSeqBy(catalogs, LAMBDA n : ~IsPriority(n, priorityCatalogs))
      remainingSlots == Max(0, max - Len(prioritizedCatalogs))
  IN prioritizedCatalogs \o Take(otherCatalogs, remainingSlots)

-----------------------------------------------------------------------------
(* The crawl: deltaSharing._fetchAllAssets *)

CrawlIds == 1..MaxCalls     \* every crawl is started by a call

IdleCrawl ==
  [pc |-> "idle", env |-> "e1", endpoint |-> "none", priorityCatalogs |-> <<>>, catalogsToScan |-> <<>>,
   ci |-> 0, limitedSchemas |-> <<>>, si |-> 0, allAssets |-> <<>>, catalogsProcessed |-> 0]

Running(c) == crawls[c].pc \in {"listCatalogs", "listSchemas", "fetchAssets"}
RunningFor(e) == {c \in CrawlIds : Running(c) /\ crawls[c].env = e}

(* lines 574, 122: an entry is valid while younger than CACHE_TTL *)
ValidInclusive(entry) == now - entry.timestamp <= CACHE_TTL
Valid(entry) == now - entry.timestamp < CACHE_TTL
HasValidAssets(e) == e \in DOMAIN assetsEntry /\ Valid(assetsEntry[e])

(* What a reader of the all_assets entry sees: the entry holds the crawl's *)
(* allAssets array itself, not a copy.                                     *)
CachedAssets(e) == crawls[assetsEntry[e].ref].allAssets

(* lines 669-723: the records pushed for one schema, given the asset-type  *)
(* fetches that failed (listVolumes, listFunctions and listModels catch    *)
(* their error and return []).                                             *)
AssetsOfType(env, cat, sch, type, failed) ==
  IF type \in failed THEN <<>>
  ELSE LET names == RemoteAssets(cat, sch, type)
       IN [i \in 1..Len(names) |->
             [assetType |-> type, catalog_name |-> cat, schema_name |-> sch,
              name |-> names[i], environmentId |-> env]]

SchemaAssets(env, cat, sch, failed) ==
  AssetsOfType(env, cat, sch, "table", failed) \o AssetsOfType(env, cat, sch, "volume", failed)
    \o AssetsOfType(env, cat, sch, "function", failed) \o AssetsOfType(env, cat, sch, "model", failed)

(* The progress records the crawl writes.  Each also carries a timestamp   *)
(* that no code reads; it is left out.                                     *)
InitialMetadata(cr) ==                                   \* lines 638-644
  [isLoading |-> TRUE, catalogsProcessed |-> 0, totalCatalogs |-> Len(cr.catalogsToScan),
   priorityCatalogs |-> Len(SelectSeqBy(cr.catalogsToScan,
                              LAMBDA n : IsPriority(n, cr.priorityCatalogs)))]
PartialMetadata(cr) ==                                   \* lines 734-740
  [isLoading |-> TRUE, catalogsProcessed |-> cr.catalogsProcessed,
   totalCatalogs |-> Len(cr.catalogsToScan), currentAssetCount |-> Len(cr.allAssets)]
FinalMetadata(cr) ==                                     \* lines 759-765
  [isLoading |-> FALSE, catalogsProcessed |-> cr.catalogsProcessed,
   totalCatalogs |-> cr.catalogsProcessed, currentAssetCount |-> Len(cr.allAssets)]
ErrorMetadataStillLoading ==     \* an error record that leaves isLoading on
  [isLoading |-> TRUE, error |-> "error.message"]
ErrorMetadata ==                                         \* lines 768-772
  [isLoading |-> FALSE, error |-> "error.message"]

(* lines 587-596 and 583: the crawl's promise settles with its allAssets   *)
(* array; the initiating call's finally deletes the fetch_assets key, and  *)
(* every call awaiting the promise resolves to the array.                  *)
(* The locals of a crawl that returned are dead. *)
Returned(cr) ==
  [cr EXCEPT !.pc = "done", !.ci = 0, !.si = 0, !.limitedSchemas = <<>>]

Settle(c, cr) ==
  /\ activeRequests' = MapDelete(activeRequests, cr.env)
  /\ calls' = [i \in 1..Len(calls) |->
                 IF calls[i].ref = c /\ ~calls[i].resolved
                 THEN [calls[i] EXCEPT !.resolved = TRUE, !.result = cr.allAssets]
                 ELSE calls[i]]

(* a completion that leaves the entry of another crawl in place *)
CompleteKeepingEntry(c, cr) ==
  /\ crawls' = [crawls EXCEPT ![c] = Returned(cr)]
  /\ assetsEntry' = IF cr.env \in DOMAIN assetsEntry /\ assetsEntry[cr.env].ref # c
                     THEN assetsEntry
                     ELSE MapSet(assetsEntry, cr.env, [ref |-> c, timestamp |-> now])
  /\ metadata' = MapSet(metadata, cr.env, FinalMetadata(cr))
  /\ Settle(c, cr)

(* lines 749-765 and 775: the loop is over; publish the final result *)
Complete(c, cr) ==
  /\ crawls' = [crawls EXCEPT ![c] = Returned(cr)]
  /\ assetsEntry' = MapSet(assetsEntry, cr.env, [ref |-> c, timestamp |-> now])
  /\ metadata' = MapSet(metadata, cr.env, FinalMetadata(cr))
  /\ Settle(c, cr)

(* a crawl that gives up at the first catalog it cannot finish *)
NextCatalogAbort(c, cr, published) == Complete(c, cr)

(* line 647: go on with the next catalog of catalogsToScan, if any.        *)
(* `published` tells whether lines 733-740 ran for the catalog just left.  *)
NextCatalog(c, cr, published) ==
  IF cr.ci < Len(cr.catalogsToScan)
  THEN /\ crawls' = [crawls EXCEPT ![c] =
                       [cr EXCEPT !.pc = "listSchemas", !.ci = cr.ci + 1,
                                  !.limitedSchemas = <<>>, !.si = 0]]
       /\ assetsEntry' = IF published
                         THEN MapSet(assetsEntry, cr.env, [ref |-> c, timestamp |-> now])
                         ELSE assetsEntry
       /\ metadata' = IF published THEN MapSet(metadata, cr.env, PartialMetadata(cr))
                      ELSE metadata
       /\ UNCHANGED <<activeRequests, calls>>
  ELSE Complete(c, cr)

(* lines 609-644: listCatalogs returned the listing *)
ListCatalogsOk(c) ==
  /\ UNCHANGED notMain
  /\ crawls[c].pc = "listCatalogs"
  /\ LET cr == [crawls[c] EXCEPT
                  !.catalogsToScan = SelectCatalogs(RemoteCatalogs(crawls[c].env),
                                                    crawls[c].priorityCatalogs, MAX_CATALOGS)]
     IN IF cr.catalogsToScan = <<>>
        THEN Complete(c, cr)
        ELSE /\ crawls' = [crawls EXCEPT ![c] = [cr EXCEPT !.pc = "listSchemas", !.ci = 1]]
             /\ metadata' = MapSet(metadata, cr.env, InitialMetadata(cr))
             /\ UNCHANGED <<assetsEntry, activeRequests, calls>>
  /\ UNCHANGED <<now, agreements>>

(* a failed listing taken for an empty one: the crawl completes *)
ListCatalogsFailStoring(c) ==
  /\ UNCHANGED notMain
  /\ crawls[c].pc = "listCatalogs"
  /\ Complete(c, crawls[c])
  /\ UNCHANGED <<now, agreements>>

(* lines 609, 766-775: listCatalogs threw; the outer catch records the error *)
ListCatalogsFail(c) ==
  /\ UNCHANGED notMain
  /\ crawls[c].pc = "listCatalogs"
  /\ crawls' = [crawls EXCEPT ![c] = Returned(crawls[c])]
  /\ metadata' = MapSet(metadata, crawls[c].env, ErrorMetadata)
  /\ Settle(c, crawls[c])
  /\ UNCHANGED <<now, agreements, assetsEntry>>

(* line 653: schemas.slice(0, MAX_SCHEMAS_PER_CATALOG) *)
LimitSchemasUncapped(schemas) == schemas
LimitSchemas(schemas) == Take(schemas, MAX_SCHEMAS_PER_CATALOG)

(* lines 649-659: listSchemas returned for the current catalog *)
ListSchemasOk(c) ==
  /\ UNCHANGED notMain
  /\ crawls[c].pc = "listSchemas"
  /\ LET cat == crawls[c].catalogsToScan[crawls[c].ci]
         cr == [crawls[c] EXCEPT
                  !.catalogsProcessed = crawls[c].catalogsProcessed + 1,
                  !.limitedSchemas = LimitSchemas(RemoteSchemas(cat))]
     IN IF cr.limitedSchemas = <<>>
        THEN NextCatalog(c, cr, TRUE)
        ELSE /\ crawls' = [crawls EXCEPT ![c] = [cr EXCEPT !.pc = "fetchAssets", !.si = 1]]
             /\ UNCHANGED <<assetsEntry, metadata, activeRequests, calls>>
  /\ UNCHANGED <<now, agreements>>

(* lines 649, 742-746: listSchemas threw; the catalog is skipped *)
ListSchemasFail(c) ==
  /\ UNCHANGED notMain
  /\ crawls[c].pc = "listSchemas"
  /\ NextCatalog(c, crawls[c], FALSE)
  /\ UNCHANGED <<now, agreements>>

(* lines 662-730: Promise.all over the four asset-type fetches of the      *)
(* current schema settled.  It rejects when listTables throws, and then    *)
(* nothing is pushed for the schema.                                       *)
FetchAssetsSettled(c, failed) ==
  /\ UNCHANGED notMain
  /\ crawls[c].pc = "fetchAssets"
  /\ LET old == crawls[c]
         cat == old.catalogsToScan[old.ci]
         sch == old.limitedSchemas[old.si]
         pushed == IF "table" \in failed THEN <<>>
                   ELSE SchemaAssets(old.env, cat, sch, failed)
         cr == [old EXCEPT !.allAssets = old.allAssets \o pushed]
     IN IF old.si < Len(old.limitedSchemas)
        THEN /\ crawls' = [crawls EXCEPT ![c] = [cr EXCEPT !.si = old.si + 1]]
             /\ UNCHANGED <<assetsEntry, metadata, activeRequests, calls>>
        ELSE NextCatalog(c, cr, TRUE)
  /\ UNCHANGED <<now, agreements>>

-----------------------------------------------------------------------------
(* deltaSharing.getAllShareTables, lines 570-597, called by endpoint ep.   *)
(* The call is recorded in `calls`: how it was served, the crawl whose     *)
(* array it got or awaits (ref), whether that crawl was running when the   *)
(* call was made (live), and the contents of the array when the call       *)
(* resolved (result).                                                      *)
CallRecord(e, how, ref, resolved, result) ==
  [env |-> e, how |-> how, ref |-> ref, live |-> how = "started" \/ Running(ref),
   resolved |-> resolved, result |-> result]

getAllShareTables(e, ep) ==
  /\ Len(calls) < MaxCalls
  /\ IF HasValidAssets(e)
     THEN \* lines 574-577: return cached.data
          /\ calls' = Append(calls, CallRecord(e, "cached", assetsEntry[e].ref, TRUE,
                                               CachedAssets(e)))
          /\ UNCHANGED <<crawls, activeRequests>>
     ELSE IF e \in DOMAIN activeRequests
     THEN \* lines 581-584: await the registered promise
          /\ calls' = Append(calls, CallRecord(e, "joined", activeRequests[e], FALSE, <<>>))
          /\ UNCHANGED <<crawls, activeRequests>>
     ELSE \* lines 587-591: start a crawl and register its promise
          \E c \in CrawlIds :
            /\ crawls[c].pc = "idle"
            /\ \A d \in CrawlIds : d < c => crawls[d].pc # "idle"
            /\ crawls' = [crawls EXCEPT ![c] =
                            [IdleCrawl EXCEPT !.pc = "listCatalogs", !.env = e, !.endpoint = ep,
                               !.priorityCatalogs = PriorityArgOf(ep, agreements)]]
            /\ activeRequests' = MapSet(activeRequests, e, c)
            /\ calls' = Append(calls, CallRecord(e, "started", c, FALSE, <<>>))
  /\ UNCHANGED <<now, assetsEntry, metadata>>

(* a call from GET /shares or GET /validation/overview taken on its own *)
GetAllShareTables(e, ep) ==
  /\ UNCHANGED notMain
  /\ getAllShareTables(e, ep)
  /\ UNCHANGED agreements

(* deltaSharing.getLoadingStatus, lines 779-788 *)
DefaultStatus == [isLoading |-> FALSE, catalogsProcessed |-> 0, totalCatalogs |-> 0]
getLoadingStatus(e) == IF e \in DOMAIN metadata THEN metadata[e] ELSE DefaultStatus

ClearCacheKeepingInFlight ==      \* a clear that spares the in-flight map
  /\ UNCHANGED <<rlVars, fetchVars, storeVars, selVars, valVars, listCalls, remoteVersion, handlers>>
  /\ validationCache' = EmptyMap
  /\ listEntries' = EmptyMap
  /\ assetsEntry' = EmptyMap
  /\ metadata' = EmptyMap
  /\ consecutiveErrors' = 0
  /\ UNCHANGED <<now, agreements, crawls, calls, activeRequests>>

(* POST /validation/clear-cache, validation.js lines 402-417, the only     *)
(* caller of clearCache, lines 29-34.  The Map `cache` holds the           *)
(* all_assets entries, the metadata entries and the entries of the list    *)
(* operations alike.                                                       *)
ClearCache ==
  /\ UNCHANGED <<rlVars, fetchVars, storeVars, selVars, valVars, listCalls, remoteVersion, handlers>>
  /\ validationCache' = EmptyMap
  /\ listEntries' = EmptyMap
  /\ assetsEntry' = EmptyMap
  /\ metadata' = EmptyMap
  /\ activeRequests' = EmptyMap
  /\ consecutiveErrors' = 0
  /\ UNCHANGED <<now, agreements, crawls, calls>>

(* Time passes.  Only the age of a cache entry depends on the clock, so    *)
(* the clock is left alone while the caches hold no timestamped entry.     *)
Tick ==
  /\ UNCHANGED notMain
  /\ now < MaxTime
  /\ assetsEntry # EmptyMap \/ validationCache # EmptyMap
  /\ now' = now + 1
  /\ UNCHANGED <<agreements, assetsEntry, metadata, activeRequests, crawls, calls>>

-----------------------------------------------------------------------------
InitMain ==
  /\ now = 0
  /\ agreements \in AgreementStores
  /\ assetsEntry = EmptyMap
  /\ metadata = EmptyMap
  /\ activeRequests = EmptyMap
  /\ crawls = [c \in CrawlIds |-> IdleCrawl]
  /\ calls = <<>>

InitLimiter ==
  /\ sinceLastRequest = Saturation
  /\ consecutiveErrors = 0
  /\ reqs = <<>>

InitSelect ==
  /\ selIn = <<>>
  /\ selOut = <<>>

InitList ==
  /\ listEntries = EmptyMap
  /\ listCalls = <<>>
  /\ remoteVersion = 0

InitValidate ==
  /\ valIn = <<>>
  /\ valOut = <<>>

(* agreements.js lines 16 and 314: nothing loaded yet.  The timestamp 0 of *)
(* the source is long past at any Date.now().                              *)
InitStore ==
  /\ volumeFiles = VolumeFilesAtStart
  /\ volumeLoadCache = [data |-> <<>>, timestamp |-> 0 - VOLUME_CACHE_TTL]
  /\ volumeAgreementsLoaded = FALSE
  /\ listed = <<>>

InitFetch ==
  fetch = [pc |-> "idle", limitedSchemas |-> <<>>, si |-> 0, outstanding |-> {},
           failed |-> {}, allAssets |-> <<>>]

InitRoutes ==
  /\ validationCache = EmptyMap
  /\ handlers = <<>>

Init == InitMain /\ InitLimiter /\ InitSelect /\ InitList /\ InitFetch /\ InitStore /\ InitValidate /\ InitRoutes

Next ==
  \/ \E e \in Envs, ep \in Endpoints : GetAllShareTables(e, ep)
  \/ \E c \in CrawlIds : ListCatalogsOk(c)
  \/ \E c \in CrawlIds : ListCatalogsFail(c)
  \/ \E c \in CrawlIds : ListSchemasOk(c)
  \/ \E c \in CrawlIds : ListSchemasFail(c)
  \/ \E c \in CrawlIds, failed \in SUBSET AssetTypes : FetchAssetsSettled(c, failed)
  \/ Tick
  \/ ClearCache

Spec == Init /\ [][Next]_vars

(* Discovery while nobody posts to /validation/clear-cache *)
NextCrawl ==
  \/ \E e \in Envs, ep \in Endpoints : GetAllShareTables(e, ep)
  \/ \E c \in CrawlIds : ListCatalogsOk(c)
  \/ \E c \in CrawlIds : ListCatalogsFail(c)
  \/ \E c \in CrawlIds : ListSchemasOk(c)
  \/ \E c \in CrawlIds : ListSchemasFail(c)
  \/ \E c \in CrawlIds, failed \in SUBSET AssetTypes : FetchAssetsSettled(c, failed)
  \/ Tick

SpecCrawl == Init /\ [][NextCrawl]_vars

-----------------------------------------------------------------------------
(* Claims about discovery, checked under Spec *)

IsLoading(e) == getLoadingStatus(e).isLoading
CallIds == 1..Len(calls)

(* C1: calls made concurrently while no valid all_assets entry exists are  *)
(* all served by one crawl and resolve to the same list: a call that       *)
(* misses the cache while an earlier call that missed it is still pending  *)
(* awaits that call's crawl.                                               *)
C1_ConcurrentCallsShareOneCrawl ==
  \A i, j \in CallIds :
    ( /\ i < j
      /\ calls[i].env = calls[j].env
      /\ calls[i].how # "cached" /\ calls[j].how # "cached"
      /\ ~calls[i].resolved )
    => /\ calls[j].ref = calls[i].ref
       /\ calls[j].how = "joined"

(* C2: at most one crawl is running for an environment *)
C2_AtMostOneCrawlPerEnv ==
  \A e \in Envs : Cardinality(RunningFor(e)) <= 1

(* C3: a call made while its crawl is running resolves to the list the     *)
(* finished crawl returns, never to an intermediate list.                  *)
C3_CallDuringCrawlGetsFinalList ==
  \A i \in CallIds :
    (calls[i].live /\ calls[i].resolved /\ crawls[calls[i].ref].pc = "done")
    => calls[i].result = crawls[calls[i].ref].allAssets

C4_LoadingWhileRunning ==
  \A e \in Envs : RunningFor(e) # {} => IsLoading(e)

C4_ProcessedNonDecreasing ==
  \A e \in Envs :
    RunningFor(e) # {} =>
      /\ "catalogsProcessed" \in DOMAIN getLoadingStatus(e)'
      /\ "catalogsProcessed" \in DOMAIN getLoadingStatus(e)
      /\ getLoadingStatus(e)'.catalogsProcessed >= getLoadingStatus(e).catalogsProcessed

(* C4: while a crawl is running every status read shows isLoading = true,  *)
(* and from one read to the next catalogsProcessed does not decrease, up   *)
(* to and including the read that follows the end of the run.              *)
C4_ProgressMonotone ==
  [](C4_LoadingWhileRunning) /\ [][C4_ProcessedNonDecreasing]_vars

C5_Step ==
  \A e \in Envs :
    /\ (~IsLoading(e) /\ IsLoading(e)') =>
          \E c \in CrawlIds : /\ crawls[c].env = e
                              /\ crawls[c].pc = "listCatalogs"
                              /\ crawls'[c].pc = "listSchemas"
    /\ (IsLoading(e) /\ ~IsLoading(e)') =>
          \E c \in RunningFor(e) : crawls'[c].pc = "done"

(* C5: the reported isLoading value turns from false to true only as a new *)
(* crawl starts publishing, and from true to false only as a crawl ends.   *)
C5_LoadingFlipsOncePerCrawl == [][C5_Step]_vars

(* C6: every progress record satisfies catalogsProcessed <= totalCatalogs *)
C6_ProcessedAtMostTotal ==
  \A e \in Envs : PropLeq(getLoadingStatus(e), "catalogsProcessed", "totalCatalogs")

(* the listed catalogs of an environment that a stored agreement names *)
AgreementCatalogs(e) ==
  {n \in {RemoteCatalogs(e)[i] : i \in 1..Len(RemoteCatalogs(e))} :
     \E k \in 1..Len(agreements) :
        \E m \in 1..Len(agreements[k].shares) : agreements[k].shares[m] = n}

(* C8: every crawl scans every listed catalog that some stored agreement   *)
(* names in its shares.                                                    *)
C8_CrawlScansAgreementCatalogs ==
  \A c \in CrawlIds :
    crawls[c].pc \in {"listSchemas", "fetchAssets"} =>
      \A n \in AgreementCatalogs(crawls[c].env) :
         \E i \in 1..Len(crawls[c].catalogsToScan) : crawls[c].catalogsToScan[i] = n

-----------------------------------------------------------------------------
(* rateLimitedRequest, lines 36-69, and the response interceptor of the    *)
(* axios client every request function goes through, lines 98-110.        *)

RECURSIVE Pow2(_)
Pow2(n) == IF n <= 0 THEN 1 ELSE 2 * Pow2(n - 1)

(* line 62: Math.min(1000 * Math.pow(2, 3 - retries), 8000) *)
BackoffDelayReversed(retries) == Min(BACKOFF_BASE * Pow2(retries), BACKOFF_CAP)
BackoffDelay(retries) == Min(BACKOFF_BASE * Pow2(3 - retries), BACKOFF_CAP)

(* line 60: only a 429 is retried, and only while retries are left *)
ShouldRetryAnyError(status, retries) == retries > 0
ShouldRetry(status, retries) == status = 429 /\ retries > 0

ReqIds == 1..Len(reqs)

NewRequest ==
  [pc |-> "entry", retries |-> DEFAULT_RETRIES, remaining |-> 0, invocations |-> 0,
   sleeps |-> <<>>, outcomes |-> <<>>, error |-> 0]

(* lines 43-56: entering rateLimitedRequest.  Either the call sleeps to    *)
(* keep the adaptive spacing, or it stamps lastRequestTime and invokes the *)
(* request function at once.  The result is the request's new state and    *)
(* the new Date.now() - lastRequestTime.                                   *)
Enter(req) ==
  LET timeSinceLastRequest == sinceLastRequest
      adaptiveDelay == MIN_REQUEST_INTERVAL * (1 + consecutiveErrors)
  IN IF timeSinceLastRequest < adaptiveDelay
     THEN [req |-> [req EXCEPT !.pc = "spacing",
                               !.remaining = adaptiveDelay - timeSinceLastRequest],
           sinceLastRequest |-> sinceLastRequest]
     ELSE [req |-> [req EXCEPT !.pc = "calling", !.invocations = req.invocations + 1],
           sinceLastRequest |-> 0]

(* a list operation calls rateLimitedRequest(fn) *)
StartRequest ==
  /\ Len(reqs) < MaxReqs
  /\ reqs' = Append(reqs, Enter(NewRequest).req)
  /\ sinceLastRequest' = Enter(NewRequest).sinceLastRequest
  /\ UNCHANGED <<mainVars, sideVars, consecutiveErrors>>

(* lines 50-56: the spacing sleep is over *)
SpacingOver(r) ==
  /\ reqs[r].pc = "spacing"
  /\ reqs[r].remaining = 0
  /\ reqs' = [reqs EXCEPT ![r].pc = "calling", ![r].invocations = reqs[r].invocations + 1]
  /\ sinceLastRequest' = 0
  /\ UNCHANGED <<mainVars, sideVars, consecutiveErrors>>

(* lines 56-58: the request function returned a response *)
RequestSucceeds(r) ==
  /\ reqs[r].pc = "calling"
  /\ reqs' = [reqs EXCEPT ![r].pc = "resolved",
                          ![r].outcomes = Append(reqs[r].outcomes, 200)]
  /\ consecutiveErrors' = 0
  /\ UNCHANGED <<mainVars, sideVars, sinceLastRequest>>

(* lines 59-68: what the catch block does with an error of the given status *)
Catch(r, req, status) ==
  IF ShouldRetry(status, req.retries)
  THEN /\ consecutiveErrors' = consecutiveErrors + 1
       /\ reqs' = [reqs EXCEPT ![r] =
                     [req EXCEPT !.pc = "backoff",
                                 !.sleeps = Append(req.sleeps, BackoffDelay(req.retries)),
                                 !.remaining = BackoffDelay(req.retries)]]
  ELSE /\ reqs' = [reqs EXCEPT ![r] = [req EXCEPT !.pc = "rejected", !.error = status]]
       /\ UNCHANGED consecutiveErrors

(* lines 100-108, 59-68: the service answered 429.  The interceptor's     *)
(* sleep before it rethrows is part of the time the request function      *)
(* takes, during which the clock advances like during any other call.     *)
RequestFails429(r) ==
  /\ reqs[r].pc = "calling"
  /\ Catch(r, [reqs[r] EXCEPT !.outcomes = Append(reqs[r].outcomes, 429)], 429)
  /\ UNCHANGED <<mainVars, sideVars, sinceLastRequest>>

(* lines 105-108, 59-68: the request function fails with another error *)
RequestFailsOther(r, status) ==
  /\ reqs[r].pc = "calling"
  /\ status # 429
  /\ Catch(r, [reqs[r] EXCEPT !.outcomes = Append(reqs[r].outcomes, status)], status)
  /\ UNCHANGED <<mainVars, sideVars, sinceLastRequest>>

(* lines 64-65: the backoff sleep is over; rateLimitedRequest(fn, retries - 1) *)
BackoffOver(r) ==
  /\ reqs[r].pc = "backoff"
  /\ reqs[r].remaining = 0
  /\ LET entered == Enter([reqs[r] EXCEPT !.retries = reqs[r].retries - 1])
     IN /\ reqs' = [reqs EXCEPT ![r] = entered.req]
        /\ sinceLastRequest' = entered.sinceLastRequest
  /\ UNCHANGED <<mainVars, sideVars, consecutiveErrors>>

(* d ms pass *)
Elapse(d) ==
  /\ sinceLastRequest' = Min(sinceLastRequest + d, Saturation)
  /\ reqs' = [r \in ReqIds |-> [reqs[r] EXCEPT !.remaining = Max(0, reqs[r].remaining - d)]]
  /\ UNCHANGED <<mainVars, sideVars, consecutiveErrors>>

(* Time passes: until the next timer is due, or, while no timer is         *)
(* pending, by one spacing interval.  A timer that is due fires before     *)
(* the clock moves on, so timers fire in the order in which they fall due. *)
PendingTimers == {reqs[r].remaining : r \in {x \in ReqIds : reqs[x].remaining > 0}}
DueTimers == {r \in ReqIds : reqs[r].pc \in {"spacing", "backoff"} /\ reqs[r].remaining = 0}

AdvanceToTimer ==
  /\ DueTimers = {}
  /\ PendingTimers # {}
  /\ Elapse(CHOOSE d \in PendingTimers : \A v \in PendingTimers : d <= v)

AdvanceClock ==
  /\ DueTimers = {}
  /\ PendingTimers = {}
  /\ sinceLastRequest < Saturation
  /\ Elapse(MIN_REQUEST_INTERVAL)

OtherStatuses == {500}

NextLimiter ==
  \/ StartRequest
  \/ \E r \in ReqIds : SpacingOver(r)
  \/ \E r \in ReqIds : RequestSucceeds(r)
  \/ \E r \in ReqIds : RequestFails429(r)
  \/ \E r \in ReqIds, status \in OtherStatuses : RequestFailsOther(r, status)
  \/ \E r \in ReqIds : BackoffOver(r)
  \/ AdvanceToTimer
  \/ AdvanceClock

SpecLimiter == Init /\ [][NextLimiter]_vars

All429(outcomes) == \A k \in 1..Len(outcomes) : outcomes[k] = 429
Last(seq) == seq[Len(seq)]

(* C9: when the request function fails with 429 on every attempt, the      *)
(* backoff slept before each retry is min(1000 * 2^attempt, 8000) ms for   *)
(* attempt 0, 1, 2, so never shorter than the one before; the request      *)
(* function is invoked exactly 1 + 3 times, never a fifth time; and the    *)
(* call then rejects with the last 429.                                    *)
C9_AllThrottledBackoffAndBudget ==
  \A r \in ReqIds :
     All429(reqs[r].outcomes) =>
        /\ \A k \in 1..Len(reqs[r].sleeps) :
              /\ reqs[r].sleeps[k] = Min(1000 * Pow2(k - 1), 8000)
              /\ k > 1 => reqs[r].sleeps[k] >= reqs[r].sleeps[k - 1]
        /\ reqs[r].invocations <= 1 + 3
        /\ Len(reqs[r].outcomes) = 1 + 3 =>
              /\ reqs[r].pc = "rejected"
              /\ reqs[r].error = 429
              /\ reqs[r].invocations = 1 + 3
              /\ Len(reqs[r].sleeps) = 3
        /\ reqs[r].pc = "rejected" => Len(reqs[r].outcomes) = 1 + 3

C9_Witness ==
  \E r \in ReqIds :
     /\ reqs[r].pc = "rejected"
     /\ reqs[r].outcomes = <<429, 429, 429, 429>>
     /\ reqs[r].sleeps = <<1000, 2000, 4000>>

FailedOther(req) ==
  /\ req.outcomes # <<>>
  /\ Last(req.outcomes) \notin {200, 429}

C10_RejectedAtOnce ==
  \A r \in ReqIds :
     FailedOther(reqs[r]) =>
        /\ reqs[r].pc = "rejected"
        /\ reqs[r].error = Last(reqs[r].outcomes)
        /\ reqs[r].invocations = Len(reqs[r].outcomes)
        /\ Len(reqs[r].sleeps) = Len(reqs[r].outcomes) - 1
        /\ Len(reqs[r].outcomes) = 1 =>
              reqs[r].invocations = 1 /\ reqs[r].sleeps = <<>>

C10_RejectStep ==
  \A r \in ReqIds :
     (~FailedOther(reqs[r]) /\ FailedOther(reqs'[r])) =>
        consecutiveErrors' = consecutiveErrors

(* C10: when the request function fails with an error whose status is not  *)
(* 429, the call rejects with that error after that one invocation, with   *)
(* no backoff sleep and no further invocation, and the step that rejects   *)
(* leaves consecutiveErrors as it was.                                     *)
C10_OtherErrorNotRetried == [](C10_RejectedAtOnce) /\ [][C10_RejectStep]_vars

C10_Witness ==
  \E r \in ReqIds :
     /\ reqs[r].pc = "rejected"
     /\ reqs[r].outcomes = <<500>>
     /\ reqs[r].invocations = 1

(* the requests whose request function is invoked by the step *)
StartedByStep ==
  {r \in DOMAIN reqs' :
     reqs'[r].invocations > (IF r \in ReqIds THEN reqs[r].invocations ELSE 0)}

(* C11: a request started through rateLimitedRequest starts at least       *)
(* MIN_REQUEST_INTERVAL * (1 + consecutiveErrors) ms after the request     *)
(* started before it, concurrent callers included.  consecutiveErrors is   *)
(* never negative, so whichever value of it is meant the gap is at least   *)
(* MIN_REQUEST_INTERVAL ms; that much is what the formula asks of every    *)
(* step that starts a request.                                             *)
C11_RequestsSpaced ==
  [][StartedByStep # {} => sinceLastRequest >= MIN_REQUEST_INTERVAL]_vars

-----------------------------------------------------------------------------

(* The catalog selection of _fetchAllAssets on its own: SpecSelect draws a *)
(* listing, a priority list and a MAX_CATALOGS value and runs lines        *)
(* 612-627 on them.                                                        *)

RECURSIVE SeqsUpTo(_, _)
SeqsUpTo(S, n) ==
  IF n = 0 THEN {<<>>}
  ELSE LET shorter == SeqsUpTo(S, n - 1)
       IN shorter \cup {Append(q, x) : q \in shorter, x \in S}

NoRepeat(q) == \A i, j \in 1..Len(q) : i # j => q[i] # q[j]

ListingNames == {"sales", "ops", "hr", "fin"}
PriorityNames == {"hr", "HR", "Sales", "marketing"}
Listings == {q \in SeqsUpTo(ListingNames, MaxListing) : NoRepeat(q)}
PriorityLists == SeqsUpTo(PriorityNames, MaxPriority)

(* The example of the discovery cap: 50 catalogs, 3 of them priority, cap 10 *)
FiftyCatalogs == [i \in 1..50 |-> "catalog_" \o ToString(i)]
FiftyCase ==
  [catalogs |-> FiftyCatalogs, priorityCatalogs |-> <<"catalog_7", "catalog_23", "catalog_50">>,
   max |-> 10]

InitSelectInputs ==
  /\ selIn \in [catalogs : Listings, priorityCatalogs : PriorityLists, max : 0..MaxCap]
                 \cup {FiftyCase}
  /\ selOut = <<>>

RunSelection ==
  /\ selOut = <<>>
  /\ selOut' = <<SelectCatalogs(selIn.catalogs, selIn.priorityCatalogs, selIn.max)>>
  /\ UNCHANGED <<mainVars, consecutiveErrors, rlVars, fetchVars, storeVars, selIn, listVars, valVars, routeVars>>

InitSelection ==
  InitMain /\ InitLimiter /\ InitSelectInputs /\ InitList /\ InitFetch /\ InitStore /\ InitValidate /\ InitRoutes

SpecSelect == InitSelection /\ [][RunSelection]_vars

(* Index sets of a listing, and the k-th smallest index of a set *)
Kth(S, k) == CHOOSE x \in S : Cardinality({y \in S : y < x}) = k - 1
InList(name, list) == \E i \in 1..Len(list) : list[i] = name
InListIgnoringCase(name, list) ==
  \E i \in 1..Len(list) : toLowerCase(list[i]) = toLowerCase(name)

(* The selection a statement of the claim prescribes, where Match tells    *)
(* which listed names count as priority: the priority catalogs in listing  *)
(* order, then the first max(0, max - #priority) others in listing order.  *)
IsPrescribedSelection(out, in, Match(_, _)) ==
  LET P == {i \in 1..Len(in.catalogs) : Match(in.catalogs[i], in.priorityCatalogs)}
      O == (1..Len(in.catalogs)) \ P
      slots == Min(Cardinality(O), Max(0, in.max - Cardinality(P)))
  IN /\ Len(out) = Cardinality(P) + slots
     /\ \A k \in 1..Cardinality(P) : out[k] = in.catalogs[Kth(P, k)]
     /\ \A k \in 1..slots : out[Cardinality(P) + k] = in.catalogs[Kth(O, k)]

(* C7 as stated: the priority catalogs are the listed catalogs whose name  *)
(* is in the priority list.                                                *)
C7_SelectionByExactName ==
  selOut # <<>> => IsPrescribedSelection(selOut[1], selIn, InList)

(* C7 amended: the priority catalogs are the listed catalogs whose name    *)
(* equals a name of the priority list up to letter case; and of the 50     *)
(* catalogs of the example exactly the 3 priority ones and 7 others are    *)
(* selected.                                                               *)
C7_SelectionIgnoringCase ==
  selOut # <<>> =>
    /\ IsPrescribedSelection(selOut[1], selIn, InListIgnoringCase)
    /\ selIn = FiftyCase =>
         /\ Len(selOut[1]) = 10
         /\ \A k \in 1..3 : InList(selIn.priorityCatalogs[k], selOut[1])
         /\ Cardinality({i \in 1..10 : ~InList(selOut[1][i], selIn.priorityCatalogs)}) = 7

(* C7 witness: a selection that kept a priority catalog listed beyond the  *)
(* cap and cut the other catalogs.                                         *)
C7_Witness ==
  /\ selOut # <<>>
  /\ Len(selIn.catalogs) > selIn.max
  /\ selIn.max > 0
  /\ \E i \in 1..Len(selIn.catalogs) :
        /\ i > selIn.max
        /\ InListIgnoringCase(selIn.catalogs[i], selIn.priorityCatalogs)
        /\ InList(selIn.catalogs[i], selOut[1])
  /\ Len(selOut[1]) < Len(selIn.catalogs)

-----------------------------------------------------------------------------
(* The cached list operations of unityCatalog, lines 118-276, on their     *)
(* own.  Each keeps one cache entry per key, and entries of different keys *)
(* do not depend on each other: a behaviour follows the calls of one       *)
(* operation for one key.  The remote data carries a version, so that a    *)
(* cached answer and a fresh one differ.  rateLimitedRequest settles after 1 to 1 + 3    *)
(* invocations of the request function (see C9 and C10).                   *)

ListOps ==
  {"listCatalogs", "listSchemas", "listTables", "listVolumes", "listFunctions", "listModels"}

(* lines 200-217, 229-246, 258-275: these catch the error and return [] *)
Swallows(op) == op \in {"listVolumes", "listFunctions", "listModels"}

ListCallIds == 1..Len(listCalls)

(* lines 119-124: look the entry up; return its data if it is valid,       *)
(* otherwise go on to the remote request.  hadEntry and age record what    *)
(* the call found.                                                         *)
ListCall(op) ==
  /\ Len(listCalls) < MaxListCalls
  /\ listCalls # <<>> => listCalls[1].op = op
  /\ LET cached == IF op \in DOMAIN listEntries THEN <<listEntries[op]>> ELSE <<>>
         found == [op |-> op, hadEntry |-> cached # <<>>,
                   age |-> IF cached # <<>> THEN now - cached[1].timestamp ELSE 0]
     IN IF cached # <<>> /\ Valid(cached[1])
        THEN listCalls' = Append(listCalls,
               found @@ [pc |-> "returned", hit |-> TRUE, requests |-> 0,
                         result |-> cached[1].data])
        ELSE listCalls' = Append(listCalls,
               found @@ [pc |-> "requesting", hit |-> FALSE, requests |-> 0, result |-> <<>>])
  /\ UNCHANGED <<mainVars, consecutiveErrors, rlVars, fetchVars, storeVars, selVars, valVars, routeVars,
                 listEntries, remoteVersion>>

(* lines 127-138: the request resolved after `attempts` invocations of the *)
(* request function; store the entry and return the data.                  *)
ListResponseOk(k, attempts) ==
  /\ listCalls[k].pc = "requesting"
  /\ listEntries' = MapSet(listEntries, listCalls[k].op,
                           [data |-> <<remoteVersion>>, timestamp |-> now])
  /\ listCalls' = [listCalls EXCEPT ![k].pc = "returned", ![k].requests = attempts,
                                    ![k].result = <<remoteVersion>>]
  /\ UNCHANGED <<mainVars, consecutiveErrors, rlVars, fetchVars, storeVars, selVars, valVars, routeVars,
                 remoteVersion>>

(* lines 127, 214-217: the request rejected after `attempts` invocations;  *)
(* the error propagates, or is caught and [] returned.                     *)
ListResponseFail(k, attempts) ==
  /\ listCalls[k].pc = "requesting"
  /\ listCalls' = [listCalls EXCEPT
                     ![k].pc = IF Swallows(listCalls[k].op) THEN "swallowed" ELSE "threw",
                     ![k].requests = attempts]
  /\ UNCHANGED <<mainVars, consecutiveErrors, rlVars, fetchVars, storeVars, selVars, valVars, routeVars,
                 listEntries, remoteVersion>>

(* the remote service's data changes *)
RemoteChanges ==
  /\ remoteVersion < MaxVersion
  /\ remoteVersion' = remoteVersion + 1
  /\ UNCHANGED <<mainVars, consecutiveErrors, rlVars, fetchVars, storeVars, selVars, valVars, routeVars,
                 listEntries, listCalls>>

(* Time passes; it matters only while an entry with a timestamp exists. *)
TickListing ==
  /\ now < MaxTime
  /\ listEntries # EmptyMap
  /\ now' = now + 1
  /\ UNCHANGED <<agreements, assetsEntry, metadata, activeRequests, crawls, calls,
                 notMain>>

Attempts == 1..(1 + DEFAULT_RETRIES)

NextListCache ==
  \/ \E op \in ListOps : ListCall(op)
  \/ \E k \in ListCallIds, attempts \in Attempts : ListResponseOk(k, attempts)
  \/ \E k \in ListCallIds, attempts \in Attempts : ListResponseFail(k, attempts)
  \/ RemoteChanges
  \/ TickListing
  \/ ClearCache

SpecListCache == Init /\ [][NextListCache]_vars

Fresh(c) == c.hadEntry /\ c.age < CACHE_TTL
Expired(c) == c.hadEntry /\ c.age >= CACHE_TTL
Settled(c) == c.pc # "requesting"

(* a call made while the entry is younger than CACHE_TTL is answered from  *)
(* the cache without a remote request; any other call goes to the service  *)
C12_HitIffFresh ==
  \A k \in ListCallIds :
     /\ Fresh(listCalls[k]) =>
          listCalls[k].hit /\ listCalls[k].pc = "returned" /\ listCalls[k].requests = 0
     /\ ~Fresh(listCalls[k]) => ~listCalls[k].hit

(* what a step does to the entry: a hit returns the entry's data and       *)
(* leaves the entry alone, a resolved request stores the fetched data with *)
(* the current time, a rejected request leaves the entry alone             *)
C12_EntryStep ==
  /\ \A k \in DOMAIN listCalls' \ ListCallIds :
        listCalls'[k].hit =>
           /\ listEntries' = listEntries
           /\ listCalls'[k].result = listEntries[listCalls'[k].op].data
  /\ \A k \in ListCallIds :
        (~Settled(listCalls[k]) /\ Settled(listCalls'[k])) =>
           IF listCalls'[k].pc = "returned"
           THEN /\ listCalls'[k].result = <<remoteVersion>>
                /\ listEntries'[listCalls[k].op] =
                     [data |-> <<remoteVersion>>, timestamp |-> now]
           ELSE /\ listEntries' = listEntries
                /\ listCalls'[k].pc = "swallowed" <=> Swallows(listCalls[k].op)

------------------------------------------------------------------------------

(* validateAsset (routes/validation.js) on its own: SpecValidate draws an  *)
(* asset and a list of agreements and runs lines 13-78 on them.  A value   *)
(* that may be undefined or null is a sequence of length 0 or 1.           *)

MaxAgreements == 2   \* agreements in a list given to validateAsset

Undefined == <<>>
Null == <<>>
Get(obj, key) == IF key \in DOMAIN obj THEN <<obj[key]>> ELSE Undefined
Has(obj, field) == field \in DOMAIN obj

(* JavaScript truthiness of a string or undefined, and a || b *)
Truthy(v) == v # Undefined /\ v[1] # ""
OrElse(a, b) == IF Truthy(a) THEN a ELSE b

(* String.prototype.includes *)
StringIncludes(s, t) ==
  \/ Len(t) = 0
  \/ \E i \in 1..(Len(s) - Len(t) + 1) : SubSeq(s, i, i + Len(t) - 1) = t

(* asset.properties?.[tagKey] || asset.tags?.[tagKey] *)
assetTagValue(asset, tagKey) ==
  OrElse(IF Has(asset, "properties") THEN Get(asset.properties, tagKey) ELSE Undefined,
         IF Has(asset, "tags") THEN Get(asset.tags, tagKey) ELSE Undefined)

agreementApplies(agreement, asset) ==
  \/ ~Has(agreement, "shares")
  \/ Len(agreement.shares) = 0
  \/ InList(asset.catalog_name, agreement.shares)

scopeMatches(req, asset) ==
  \/ req.scope = "*.*.*"
  \/ req.scope = "all"
  \/ StringIncludes(req.scope, asset.catalog_name)
  \/ StringIncludes(req.scope, asset.name)

Violation(agreement, req, tagKey, tagValue, actual) ==
  [agreementId |-> agreement.id, severity |-> req.severity, tagKey |-> tagKey,
   expectedValue |-> tagValue, actualValue |-> actual]

(* The body of the loop over Object.entries(req.requiredTags): an entry is *)
(* a pair <<tagKey, tagValue>>.                                            *)
EntryViolations(asset, agreement, req, entry) ==
  LET value == assetTagValue(asset, entry[1])
  IN IF ~Truthy(value)
     THEN <<Violation(agreement, req, entry[1], entry[2], Null)>>
     ELSE IF value[1] # entry[2]
          THEN <<Violation(agreement, req, entry[1], entry[2], value)>>
          ELSE <<>>

RECURSIVE TagViolationsLastFirst(_, _, _, _)
TagViolationsLastFirst(asset, agreement, req, entries) ==
  IF entries = <<>> THEN <<>>
  ELSE TagViolationsLastFirst(asset, agreement, req, Tail(entries))
         \o EntryViolations(asset, agreement, req, Head(entries))

RECURSIVE TagViolations(_, _, _, _)
TagViolations(asset, agreement, req, entries) ==
  IF entries = <<>> THEN <<>>
  ELSE EntryViolations(asset, agreement, req, Head(entries))
         \o TagViolations(asset, agreement, req, Tail(entries))

RECURSIVE RequirementViolations(_, _, _)
RequirementViolations(asset, agreement, requirements) ==
  IF requirements = <<>> THEN <<>>
  ELSE (IF scopeMatches(Head(requirements), asset)
        THEN TagViolations(asset, agreement, Head(requirements),
                           Head(requirements).requiredTags)
        ELSE <<>>)
         \o RequirementViolations(asset, agreement, Tail(requirements))

InEnvironmentAlways(agreement, asset) == TRUE
InEnvironment(agreement, asset) == InList(asset.environmentId, agreement.environments)

RECURSIVE relevantAgreements(_, _)
relevantAgreements(list, asset) ==
  IF list = <<>> THEN <<>>
  ELSE (IF InEnvironment(Head(list), asset) THEN <<Head(list)>> ELSE <<>>)
         \o relevantAgreements(Tail(list), asset)

RECURSIVE AgreementViolations(_, _)
AgreementViolations(asset, relevant) ==
  IF relevant = <<>> THEN <<>>
  ELSE (IF agreementApplies(Head(relevant), asset) /\ Has(Head(relevant), "parsedRequirements")
        THEN RequirementViolations(asset, Head(relevant), Head(relevant).parsedRequirements)
        ELSE <<>>)
         \o AgreementViolations(asset, Tail(relevant))

(* Object.entries(req.requiredTags), line 41, throws a TypeError when the   *)
(* requirement has no requiredTags; nothing in validateAsset catches it    *)
TypeError == [threw |-> "TypeError"]
Raises(asset, relevant) ==
  \E i \in 1..Len(relevant) :
     /\ agreementApplies(relevant[i], asset)
     /\ Has(relevant[i], "parsedRequirements")
     /\ \E j \in 1..Len(relevant[i].parsedRequirements) :
           /\ scopeMatches(relevant[i].parsedRequirements[j], asset)
           /\ ~Has(relevant[i].parsedRequirements[j], "requiredTags")

validateAsset(asset, list) ==
  LET relevant == relevantAgreements(list, asset)
      violations == AgreementViolations(asset, relevant)
  IN IF Raises(asset, relevant) THEN TypeError
     ELSE [assetName |-> asset.name, environmentId |-> asset.environmentId,
           compliant |-> Len(violations) = 0, violations |-> violations]

(* The inputs: the asset "orders" of catalog "sales" in environment e1,    *)
(* with its tags and, where the remote record has them, its properties     *)
PiiTags == {<<>>} \cup {[pii |-> v] : v \in {"", "true", "false"}}
RetentionTags == {<<>>, [retention_years |-> "7"]}
AssetTags == {p @@ r : p \in PiiTags, r \in RetentionTags}
BareAssets ==
  {[environmentId |-> "e1", catalog_name |-> "sales", name |-> "orders", tags |-> t] :
     t \in AssetTags}
ValidatedAssets ==
  BareAssets \cup {a @@ [properties |-> [pii |-> "true"]] : a \in BareAssets}

Requirements ==
  { [scope |-> "all", severity |-> "critical",
     requiredTags |-> << <<"pii", "true">>, <<"retention_years", "7">> >>],
    [scope |-> "*.*.*", severity |-> "high", requiredTags |-> << <<"pii", "">> >>],
    [scope |-> "sales.*.*", severity |-> "high", requiredTags |-> << <<"pii", "true">> >>],
    [scope |-> "hr.default.orders", severity |-> "critical",
     requiredTags |-> << <<"retention_years", "7">> >>],
    [scope |-> "marketing.*.*", severity |-> "critical",
     requiredTags |-> << <<"pii", "true">> >>] }

TwoRequirements ==
  << [scope |-> "all", severity |-> "critical",
      requiredTags |-> << <<"pii", "true">>, <<"retention_years", "7">> >>],
     [scope |-> "sales.*.*", severity |-> "high", requiredTags |-> << <<"pii", "true">> >>] >>
RequirementLists == {<<>>} \cup {<<r>> : r \in Requirements}

AgreementReaches ==
  { [environments |-> <<"e1">>],
    [environments |-> <<"e1">>, shares |-> <<>>],
    [environments |-> <<"e1">>, shares |-> <<"sales">>],
    [environments |-> <<"e1">>, shares |-> <<"marketing">>],
    [environments |-> <<"e2">>, shares |-> <<"sales">>] }

AgreementShapes ==
  AgreementReaches
    \cup {g @@ [parsedRequirements |-> q] : g \in AgreementReaches, q \in RequirementLists}

(* the stored agreements have distinct ids (sharesRegistry.js line 51) *)
AgreementId(i) == "agreement-" \o ToString(i)
WithIds(shapes) == [i \in 1..Len(shapes) |-> shapes[i] @@ [id |-> AgreementId(i)]]
AgreementLists == {WithIds(q) : q \in SeqsUpTo(AgreementShapes, MaxAgreements)}

InitValidateInputs ==
  /\ valIn \in [asset : ValidatedAssets, agreements : AgreementLists]
  /\ valOut = <<>>

RunValidation ==
  /\ valOut = <<>>
  /\ valOut' = <<validateAsset(valIn.asset, valIn.agreements)>>
  /\ UNCHANGED <<mainVars, consecutiveErrors, rlVars, fetchVars, storeVars, selVars, listVars, valIn, routeVars>>

InitValidation ==
  InitMain /\ InitLimiter /\ InitSelect /\ InitList /\ InitFetch /\ InitStore /\ InitValidateInputs /\ InitRoutes

SpecValidate == InitValidation /\ [][RunValidation]_vars

(* What the claims speak of: the violations of the result raised for one   *)
(* agreement and one tag key, and the requirement entries that apply       *)
Result == valOut[1]
ViolationsFor(id, tagKey) ==
  SelectSeq(Result.violations, LAMBDA v : v.agreementId = id /\ v.tagKey = tagKey)
Applicable(agreement) ==
  /\ InList(valIn.asset.environmentId, agreement.environments)
  /\ (Has(agreement, "shares") /\ agreement.shares # <<>>)
        => InList(valIn.asset.catalog_name, agreement.shares)
ScopeCovers(req) ==
  \/ req.scope \in {"*.*.*", "all"}
  \/ StringIncludes(req.scope, valIn.asset.catalog_name)
  \/ StringIncludes(req.scope, valIn.asset.name)
ListedRequirements(agreement) ==
  IF Has(agreement, "parsedRequirements") THEN agreement.parsedRequirements ELSE <<>>
Indices(seq) == 1..Len(seq)
Carries(tagKey) == tagKey \in DOMAIN valIn.asset.tags

(* C13: for an agreement that applies to the asset and a requirement whose *)
(* scope matches, the result holds exactly one violation with actualValue  *)
(* null and the requirement's severity for each required key the asset     *)
(* lacks, exactly one violation carrying the observed value for each       *)
(* required key whose value differs from the expected one, and compliant   *)
(* is true exactly when there is no violation.                             *)
C13_ViolationPerRequiredKey ==
  valOut # <<>> =>
    /\ Result.compliant <=> Result.violations = <<>>
    /\ \A i \in Indices(valIn.agreements) :
         LET agreement == valIn.agreements[i]
         IN Applicable(agreement) =>
              \A j \in Indices(ListedRequirements(agreement)) :
                 LET req == agreement.parsedRequirements[j]
                 IN ScopeCovers(req) =>
                      \A n \in Indices(req.requiredTags) :
                         LET tagKey == req.requiredTags[n][1]
                             expected == req.requiredTags[n][2]
                             found == ViolationsFor(agreement.id, tagKey)
                         IN /\ ~Carries(tagKey) =>
                                 /\ Len(found) = 1
                                 /\ found[1].actualValue = Null
                                 /\ found[1].severity = req.severity
                            /\ (Carries(tagKey) /\ valIn.asset.tags[tagKey] # expected) =>
                                 /\ Len(found) = 1
                                 /\ found[1].actualValue = <<valIn.asset.tags[tagKey]>>

(* C14: validateAsset emits no violation for a required tag when the asset *)
(* carries that tag with a value strictly equal to the expected value,     *)
(* whatever string the value is.                                           *)
C14_EqualValueNoViolation ==
  valOut # <<>> =>
    \A i \in Indices(valIn.agreements) :
       LET agreement == valIn.agreements[i]
       IN \A j \in Indices(ListedRequirements(agreement)) :
             LET req == agreement.parsedRequirements[j]
             IN \A n \in Indices(req.requiredTags) :
                   LET tagKey == req.requiredTags[n][1]
                   IN (Carries(tagKey) /\ valIn.asset.tags[tagKey] = req.requiredTags[n][2])
                         => ViolationsFor(agreement.id, tagKey) = <<>>

(* C15: validateAsset emits no violation on behalf of an agreement whose   *)
(* environments list lacks the asset's environmentId or whose non-empty    *)
(* shares list lacks the asset's catalog name, and an asset to which no    *)
(* agreement applies is reported compliant.                                *)
C15_InapplicableAgreementSilent ==
  valOut # <<>> =>
    /\ \A i \in Indices(valIn.agreements) :
          ~Applicable(valIn.agreements[i]) =>
             \A n \in Indices(Result.violations) :
                Result.violations[n].agreementId # valIn.agreements[i].id
    /\ (\A i \in Indices(valIn.agreements) : ~Applicable(valIn.agreements[i]))
          => Result.compliant /\ Result.violations = <<>>

(* C15 witness: two agreements demand a tag the asset lacks, in a scope    *)
(* that covers it; one is for another environment, the other for another   *)
(* share, and the asset is reported compliant.                             *)
Demands(agreement) ==
  /\ ListedRequirements(agreement) # <<>>
  /\ agreement.parsedRequirements[1].scope = "all"
C15_Witness ==
  /\ valOut # <<>>
  /\ valIn.asset.tags = <<>> /\ ~Has(valIn.asset, "properties")
  /\ Len(valIn.agreements) = 2
  /\ Demands(valIn.agreements[1]) /\ Demands(valIn.agreements[2])
  /\ valIn.agreements[1].environments = <<"e2">>
  /\ valIn.agreements[2].environments = <<"e1">>
  /\ Has(valIn.agreements[2], "shares")
  /\ valIn.agreements[2].shares = <<"marketing">>
  /\ Result.compliant

------------------------------------------------------------------------------

(* The validation routes (routes/validation.js) with their validationCache *)
(* on top of the discovery of Spec.  `handlers` records the requests to    *)
(* GET /overview, GET /violations and POST /validate-all: the call to      *)
(* getAllShareTables a request awaits, if any, and the response it sent.   *)
(* A cache entry also records how many agreements and assets the response  *)
(* was computed from.                                                      *)

MaxHandlers == 2     \* requests to the validation routes per behaviour

VALIDATION_CACHE_TTL == 1      \* line 10: 5 minutes, one clock tick
Routes == {"overview", "violations", "validate_all"}
HandlerIds == 1..Len(handlers)

CacheFresh(route) ==           \* lines 84-86, 270-272, 359-361
  /\ route \in DOMAIN validationCache
  /\ now - validationCache[route].timestamp < VALIDATION_CACHE_TTL

(* results = assets.map(asset => validateAsset(asset, agreements)) *)
ValidateEach(assets, list) == [i \in 1..Len(assets) |-> validateAsset(assets[i], list)]
NonCompliant(results) == SelectSeq(results, LAMBDA r : ~r.compliant)

(* The response bodies, without the fields derived from those kept *)
DefaultOverview == [totalAssets |-> 0, compliantAssets |-> 0, note |-> "Loading assets"]
EmptyResult == [violations |-> <<>>, totalAssets |-> 0, note |-> "No agreements defined"]
Computed(route, assets, list) ==
  LET results == ValidateEach(assets, list)
  IN CASE route = "overview" ->
            [totalAssets |-> Len(assets),
             compliantAssets |-> Len(results) - Len(NonCompliant(results))]
       [] route = "violations" ->
            [violations |-> NonCompliant(results), totalAssets |-> Len(assets)]
       [] route = "validate_all" ->
            [results |-> results, totalAssets |-> Len(results)]

(* lines 110-128: only GET /overview answers an empty asset list with a    *)
(* default body that it does not cache                                     *)
AnswersDefault(route, assets) == route = "overview" /\ assets = <<>>

Handler(route, pc, call, served, response) ==
  [route |-> route, pc |-> pc, call |-> call, served |-> served, response |-> response]

(* The part of a handler after `await getAllShareTables(env.id)`: validate *)
(* the assets against the agreements array as it is now, cache, respond    *)
Answered(route, call, assets) ==
  IF AnswersDefault(route, assets)
  THEN Handler(route, "done", call, "default", DefaultOverview)
  ELSE Handler(route, "done", call, "computed", Computed(route, assets, agreements))

CachedAfter(cache, route, assets) ==
  IF AnswersDefault(route, assets) THEN cache
  ELSE MapSet(cache, route,
              [data |-> Computed(route, assets, agreements), timestamp |-> now,
               agreementCount |-> Len(agreements), assetCount |-> Len(assets)])

(* A request arrives.  It is answered at once from validationCache, or by  *)
(* the short-circuit of GET /violations, or when getAllShareTables returns *)
(* the cached asset list; otherwise it awaits the crawl.                   *)
BeginRoute(route) ==
  /\ Len(handlers) < MaxHandlers
  /\ UNCHANGED <<consecutiveErrors, rlVars, fetchVars, storeVars, selVars, listVars, valVars, agreements>>
  /\ IF CacheFresh(route)
     THEN /\ handlers' = Append(handlers,
                                Handler(route, "done", 0, "cache", validationCache[route].data))
          /\ UNCHANGED <<validationCache, now, assetsEntry, metadata, activeRequests,
                         crawls, calls>>
     ELSE IF route = "violations" /\ Len(agreements) = 0
     THEN /\ handlers' = Append(handlers, Handler(route, "done", 0, "short", EmptyResult))
          /\ UNCHANGED <<validationCache, now, assetsEntry, metadata, activeRequests,
                         crawls, calls>>
     ELSE /\ getAllShareTables("e1", route)
          /\ LET call == calls'[Len(calls')]
             IN IF call.resolved
                THEN /\ handlers' = Append(handlers, Answered(route, Len(calls'), call.result))
                     /\ validationCache' = CachedAfter(validationCache, route, call.result)
                ELSE /\ handlers' = Append(handlers,
                                           Handler(route, "awaiting", Len(calls'), "none", <<>>))
                     /\ UNCHANGED validationCache

(* The crawl a request awaits has settled: the handler resumes *)
Ready == {h \in HandlerIds : handlers[h].pc = "awaiting" /\ calls[handlers[h].call].resolved}

FinishRoute(h) ==
  /\ h \in Ready
  /\ \A g \in Ready : h <= g
  /\ LET assets == calls[handlers[h].call].result
     IN /\ handlers' = [handlers EXCEPT
                          ![h] = Answered(handlers[h].route, handlers[h].call, assets)]
        /\ validationCache' = CachedAfter(validationCache, handlers[h].route, assets)
  /\ UNCHANGED <<mainVars, consecutiveErrors, rlVars, fetchVars, storeVars, selVars, listVars, valVars>>

(* POST /agreements/ingest (its last segment, from line 640 on) and        *)
(* DELETE /agreements/:id on the agreements store.                         *)
NewAgreements == {StoredAgreement("a2", "sales")}

(* a.source and a.sourceFile; a property an object lacks reads Undefined *)
Source(a) == Get(a, "source")
SourceFile(a) == Get(a, "sourceFile")

(* sharesRegistry.js lines 41-45: { ...existing, ...agreementData }; the   *)
(* data of a request carries no id, so the id of the existing one stays    *)
Merged(existing, data) ==
  [k \in DOMAIN existing \cup DOMAIN data |->
     IF k = "id" THEN existing.id
     ELSE IF k \in DOMAIN data THEN data[k] ELSE existing[k]]

(* sharesRegistry.js lines 29-58, as a function of the store.  `data`      *)
(* carries the id that line 51 generates for a new agreement.              *)
Added(store, data) ==
  LET existing == {i \in 1..Len(store) :
                     /\ InList(data.shares[1], store[i].shares)
                     /\ Source(store[i]) = Source(data)}
  IN IF existing # {}
     THEN LET i == CHOOSE i \in existing : \A j \in existing : i <= j
          IN [store EXCEPT ![i] = Merged(store[i], data)]
     ELSE Append(store, data)

addAgreement(data) == agreements' = Added(agreements, data)

AddAgreement(data) ==
  /\ addAgreement(data)
  /\ agreements' # agreements
  /\ UNCHANGED <<now, assetsEntry, metadata, activeRequests, crawls, calls>>
  /\ UNCHANGED notMain

deleteAgreement(id) ==
  LET index == {i \in 1..Len(agreements) : agreements[i].id = id}
  IN /\ index # {}
     /\ agreements' = SelectSeq(agreements, LAMBDA a : a.id # id)

(* agreements.js lines 663-688: the file is deleted unless the request to  *)
(* the service fails, which the helper reports without throwing           *)
deleteAgreementFromVolume(fileName, ok) ==
  IF ok THEN SelectSeq(volumeFiles, LAMBDA f : f # fileName) ELSE volumeFiles

(* DELETE /agreements/:id, lines 690-731 *)
DeleteAgreement(id) ==
  /\ deleteAgreement(id)
  /\ LET agreement == CHOOSE a \in {agreements[i] : i \in 1..Len(agreements)} : a.id = id
     IN IF SourceFile(agreement) # Undefined
        THEN \E ok \in BOOLEAN :
                volumeFiles' = deleteAgreementFromVolume(SourceFile(agreement)[1], ok)
        ELSE UNCHANGED volumeFiles
  /\ volumeAgreementsLoaded' = FALSE
  /\ UNCHANGED <<volumeLoadCache, listed>>
  /\ UNCHANGED <<now, assetsEntry, metadata, activeRequests, crawls, calls>>
  /\ UNCHANGED <<consecutiveErrors, rlVars, selVars, listVars, valVars, routeVars, fetchVars>>

AgreementIds == {"a1", "a2"}

(* A handler that can resume does so before the next request or response   *)
(* is taken up.                                                            *)
Idle == Ready = {}

(* Under the routes the fetches of a schema all succeed or all fail *)
FetchOutcomes == {{}, AssetTypes}

NextRoutes ==
  \/ Idle /\ \E route \in Routes : BeginRoute(route)
  \/ \E h \in HandlerIds : FinishRoute(h)
  \/ Idle /\ \E data \in NewAgreements : AddAgreement(data)
  \/ Idle /\ \E id \in AgreementIds : DeleteAgreement(id)
  \/ Idle /\ \E c \in CrawlIds : ListCatalogsOk(c)
  \/ Idle /\ \E c \in CrawlIds : ListCatalogsFail(c)
  \/ Idle /\ \E c \in CrawlIds : ListSchemasOk(c)
  \/ Idle /\ \E c \in CrawlIds : ListSchemasFail(c)
  \/ Idle /\ \E c \in CrawlIds, failed \in FetchOutcomes : FetchAssetsSettled(c, failed)
  \/ Idle /\ Tick
  \/ Idle /\ ClearCache

SpecRoutes == Init /\ [][NextRoutes]_vars

(* The request a step takes up, if it takes one up *)
Arrives(route) ==
  /\ Len(handlers') = Len(handlers) + 1
  /\ handlers'[Len(handlers')].route = route

(* C16: whenever the agreement store is empty, GET /validation/violations  *)
(* returns an empty violations array without calling getAllShareTables or  *)
(* validating any asset, whatever requests were served before.             *)
C16_EmptyStoreNoViolations ==
  [][(Arrives("violations") /\ Len(agreements) = 0) =>
        /\ handlers'[Len(handlers')].pc = "done"
        /\ handlers'[Len(handlers')].response.violations = <<>>
        /\ calls' = calls]_vars

(* C17: no overview, violations or validate-all response computed while    *)
(* the agreement list was empty or while no asset had been discovered is   *)
(* ever stored in validationCache.                                         *)
C17_NoEmptyResultCached ==
  \A route \in DOMAIN validationCache :
     /\ validationCache[route].agreementCount > 0
     /\ validationCache[route].assetCount > 0

(* C18: POST /validation/clear-cache leaves validationCache, the catalog   *)
(* cache and the in-flight request map all empty, and a second call right  *)
(* after it succeeds and leaves exactly the same state.                    *)
CachesEmpty ==
  /\ validationCache = EmptyMap
  /\ assetsEntry = EmptyMap /\ metadata = EmptyMap /\ listEntries = EmptyMap
  /\ activeRequests = EmptyMap
C18_ClearCacheTwice ==
  [][ClearCache => /\ CachesEmpty'
                   /\ (CachesEmpty /\ consecutiveErrors = 0) => UNCHANGED vars]_vars

(* C18 witness: a response had been cached, a crawl had published its      *)
(* assets and another crawl is in flight, and all three stores are empty.  *)
C18_Witness ==
  /\ CachesEmpty
  /\ \E h \in HandlerIds : handlers[h].served = "computed"
  /\ \E c \in CrawlIds : crawls[c].pc = "done" /\ crawls[c].allAssets # <<>>
  /\ \E c \in CrawlIds : Running(c)

------------------------------------------------------------------------------
(* Claims about the errors of a crawl, checked under SpecCrawl; their      *)
(* formulas hold under Spec as well.                                       *)

(* C19: when a crawl ends with an unrecoverable error, getLoadingStatus    *)
(* then shows isLoading=false with a non-null error, and every all_assets  *)
(* entry published before the error is still in the cache with its assets. *)
C19_ErrorKeepsPublishedAssets ==
  [][\A c \in CrawlIds :
       (crawls'[c] # crawls[c] /\ ListCatalogsFail(c)) =>
         LET e == crawls[c].env
         IN /\ ~getLoadingStatus(e)'.isLoading
            /\ "error" \in DOMAIN getLoadingStatus(e)'
            /\ \A d \in DOMAIN assetsEntry :
                  /\ d \in DOMAIN assetsEntry'
                  /\ assetsEntry'[d] = assetsEntry[d]
                  /\ CachedAssets(d)' = CachedAssets(d)]_vars

(* C19 witness: a crawl published its assets, the entry expired, and the   *)
(* next crawl ended with an error: the status shows the error and the      *)
(* entry still holds the assets.                                           *)
C19_Witness ==
  /\ "e1" \in DOMAIN metadata /\ "error" \in DOMAIN metadata["e1"]
  /\ "e1" \in DOMAIN assetsEntry /\ CachedAssets("e1") # <<>>
  /\ ~Valid(assetsEntry["e1"])
  /\ \E c \in CrawlIds : c # assetsEntry["e1"].ref /\ crawls[c].pc = "done"

(* C20: if listing the schemas of one selected catalog fails, or fetching  *)
(* the assets of one schema fails, the crawl goes on with every remaining  *)
(* selected schema and catalog and ends with isLoading=false and no        *)
(* run-level error.                                                        *)
UnitFails(c) ==
  /\ crawls'[c] # crawls[c]
  /\ \/ ListSchemasFail(c)
     \/ \E failed \in SUBSET AssetTypes : failed # {} /\ FetchAssetsSettled(c, failed)
EndsClean(c) ==
  /\ crawls'[c].pc = "done"
  /\ ~getLoadingStatus(crawls[c].env)'.isLoading
  /\ "error" \notin DOMAIN getLoadingStatus(crawls[c].env)'
GoesOn(c) ==
  LET old == crawls[c]
      new == crawls'[c]
  IN IF old.pc = "fetchAssets" /\ old.si < Len(old.limitedSchemas)
     THEN new.pc = "fetchAssets" /\ new.ci = old.ci /\ new.si = old.si + 1
     ELSE IF old.ci < Len(old.catalogsToScan)
     THEN new.pc = "listSchemas" /\ new.ci = old.ci + 1
     ELSE EndsClean(c)
C20_UnitFailureDoesNotAbort ==
  [][\A c \in CrawlIds :
       /\ UnitFails(c) => GoesOn(c)
       /\ (crawls[c].pc \in {"listSchemas", "fetchAssets"} /\ crawls'[c].pc = "done")
             => EndsClean(c)]_vars

(* C20 witness: the fetches of both schemas of catalog sales failed, the   *)
(* crawl went on to catalog ops and ended with the final progress record   *)
(* and nothing collected.                                                  *)
C20_Witness ==
  \E c \in CrawlIds :
     /\ crawls[c].pc = "done"
     /\ crawls[c].catalogsToScan = <<"sales", "ops">>
     /\ crawls[c].catalogsProcessed = 2
     /\ crawls[c].allAssets = <<>>
     /\ crawls[c].env \in DOMAIN metadata
     /\ metadata[crawls[c].env] = FinalMetadata(crawls[c])

(* C21: a remote call of a crawl that still gets HTTP 429 when the retry   *)
(* budget is spent never fails the whole run: only its catalog or schema   *)
(* yields nothing, the crawl goes on, and the final progress record        *)
(* carries no error.  rateLimitedRequest rejects such a call (C9), and the *)
(* crawl treats that rejection as it treats any other of the call.         *)
RemoteCallFails(c) ==
  /\ crawls'[c] # crawls[c]
  /\ \/ ListCatalogsFail(c)
     \/ ListSchemasFail(c)
     \/ \E failed \in SUBSET AssetTypes : failed # {} /\ FetchAssetsSettled(c, failed)
C21_ThrottledCallDoesNotFailRun ==
  [][\A c \in CrawlIds :
       RemoteCallFails(c) =>
         /\ "error" \notin DOMAIN getLoadingStatus(crawls[c].env)'
         /\ crawls'[c].pc = "done" => EndsClean(c)]_vars

------------------------------------------------------------------------------

(* The overview of GET /validation/overview, lines 130-181, on its own:    *)
(* SpecOverview draws a list of assets and a list of agreements and        *)
(* computes the overview from them.                                        *)

MaxAssets == 3       \* assets in a list given to the overview

(* JavaScript numbers are IEEE 754 doubles.  A positive double is kept as  *)
(* its 53 significand bits, most significant first, and its exponent:      *)
(* the value is bits * 2^exp.  Every operation rounds to nearest, ties to  *)
(* even.                                                                   *)
Zeros(n) == [i \in 1..n |-> 0]

RECURSIVE BitsToNat(_)
BitsToNat(bits) ==
  IF bits = <<>> THEN 0
  ELSE 2 * BitsToNat(SubSeq(bits, 1, Len(bits) - 1)) + bits[Len(bits)]

AddBits(a, b, carry) ==        \* a + b + carry for Len(a) = Len(b), one bit longer
  LET n == Len(a)
      into[i \in 0..n] ==      \* the carry into the bit i places from the right
        IF i = 0 THEN carry ELSE (a[n - i + 1] + b[n - i + 1] + into[i - 1]) \div 2
  IN [k \in 1..(n + 1) |->
        IF k = 1 THEN into[n] ELSE (a[k - 1] + b[k - 1] + into[n - k + 1]) % 2]

RECURSIVE StripZeros(_)
StripZeros(bits) ==
  IF bits # <<>> /\ bits[1] = 0 THEN StripZeros(Tail(bits)) ELSE bits

RoundToDouble(bits, exp) ==    \* bits has no leading zero
  LET drop == Len(bits) - 53
  IN IF drop <= 0 THEN [bits |-> bits \o Zeros(-drop), exp |-> exp + drop]
     ELSE LET kept == SubSeq(bits, 1, 53)
              guard == bits[54]
              sticky == \E i \in 55..Len(bits) : bits[i] = 1
              up == guard = 1 /\ (sticky \/ kept[53] = 1)
              next == AddBits(kept, Zeros(53), 1)
          IN IF ~up THEN [bits |-> kept, exp |-> exp + drop]
             ELSE IF next[1] = 1 THEN [bits |-> SubSeq(next, 1, 53), exp |-> exp + drop + 1]
             ELSE [bits |-> Tail(next), exp |-> exp + drop]

(* c / t for 0 < c <= t: long division to 54 bits and a sticky bit *)
RECURSIVE Shifted(_, _)
Shifted(c, t) == IF c >= t THEN [n |-> c, shift |-> 0]
                 ELSE LET s == Shifted(2 * c, t) IN [n |-> s.n, shift |-> s.shift + 1]

RECURSIVE QuotientBits(_, _, _)
QuotientBits(r, t, k) ==
  IF k = 0 THEN <<IF r = 0 THEN 0 ELSE 1>>
  ELSE IF 2 * r >= t THEN <<1>> \o QuotientBits(2 * r - t, t, k - 1)
       ELSE <<0>> \o QuotientBits(2 * r, t, k - 1)

Divide(c, t) ==
  LET s == Shifted(c, t)
  IN RoundToDouble(<<1>> \o QuotientBits(s.n - t, t, 53), -54 - s.shift)

(* x * 100: 100 = 64 + 32 + 4 *)
Times100(x) ==
  LET m == Zeros(7) \o x.bits
      by64 == SubSeq(m, 7, 60) \o Zeros(6)
      by32 == SubSeq(m, 6, 60) \o Zeros(5)
      by4 == SubSeq(m, 3, 60) \o Zeros(2)
      sum == AddBits(Tail(AddBits(by64, by32, 0)), by4, 0)
  IN RoundToDouble(StripZeros(sum), x.exp)

(* Math.round of a double below 2^52: the nearest integer, ties upwards *)
MathRound(x) ==
  LET fraction == -x.exp
  IN IF fraction > 53 THEN 0
     ELSE BitsToNat(SubSeq(x.bits, 1, 53 - fraction))
            + (IF fraction >= 1 THEN x.bits[53 - fraction + 1] ELSE 0)

(* total > 0 ? Math.round((compliant / total) * 100) : 0 *)
Percentage(compliant, total) ==
  IF total > 0
  THEN IF compliant = 0 THEN 0 ELSE MathRound(Times100(Divide(compliant, total)))
  ELSE 0

CriticalCount(results) ==      \* lines 135-137
  LET count[i \in 0..Len(results)] ==
        IF i = 0 THEN 0
        ELSE count[i - 1]
               + Len(SelectSeq(results[i].violations, LAMBDA v : v.severity = "critical"))
  IN count[Len(results)]

CompliantCount(results) == Len(SelectSeq(results, LAMBDA r : r.compliant))

(* lines 140-160: one entry per environment, in order of first appearance *)
EnvironmentStats(results) ==
  LET ids == Unique([i \in 1..Len(results) |-> results[i].environmentId])
  IN [k \in 1..Len(ids) |->
        LET own == SelectSeq(results, LAMBDA r : r.environmentId = ids[k])
        IN [environmentId |-> ids[k], totalAssets |-> Len(own),
            compliantAssets |-> CompliantCount(own),
            compliancePercentage |-> Percentage(CompliantCount(own), Len(own))]]

Overview(assets, list) ==
  LET results == ValidateEach(assets, list)
  IN [overall |->
        [totalAssets |-> Len(assets),
         compliantAssets |-> CompliantCount(results),
         nonCompliantAssets |-> Len(assets) - CompliantCount(results),
         criticalViolations |-> CriticalCount(results),
         compliancePercentage |-> Percentage(CompliantCount(results), Len(assets))],
      byEnvironment |-> EnvironmentStats(results)]

(* The inputs: tables of two environments with or without the tag pii, and *)
(* agreements that ask for it; and a listing of 40 tables of which 23      *)
(* carry the tag                                                           *)
Table(env, n, tags) ==
  [environmentId |-> env, catalog_name |-> "sales", name |-> n, tags |-> tags]
OverviewAssets ==
  {Table(env, "orders", tags) : env \in {"e1", "e2"}, tags \in {<<>>, [pii |-> "true"]}}
OverviewAgreements ==
  { <<>>,
    <<StoredAgreement("a1", "sales")>>,
    <<StoredAgreement("a1", "sales"),
      [id |-> "a2", environments |-> <<"e2">>, shares |-> <<>>,
       parsedRequirements |->
         <<[requiredTags |-> << <<"pii", "true">> >>, scope |-> "all", severity |-> "high"]>>]>> }
FortyTables ==
  [i \in 1..40 |-> Table("e1", "t" \o ToString(i), IF i <= 23 THEN [pii |-> "true"] ELSE <<>>)]
FortyCase ==
  [assets |-> FortyTables, agreements |-> <<StoredAgreement("a1", "sales")>>]

InitOverviewInputs ==
  /\ valIn \in [assets : SeqsUpTo(OverviewAssets, MaxAssets), agreements : OverviewAgreements]
                 \cup {FortyCase}
  /\ valOut = <<>>

RunOverview ==
  /\ valOut = <<>>
  /\ valOut' = <<Overview(valIn.assets, valIn.agreements)>>
  /\ UNCHANGED <<mainVars, consecutiveErrors, rlVars, fetchVars, storeVars, selVars, listVars, valIn, routeVars>>

InitOverview ==
  InitMain /\ InitLimiter /\ InitSelect /\ InitList /\ InitFetch /\ InitStore /\ InitOverviewInputs /\ InitRoutes

SpecOverview == InitOverview /\ [][RunOverview]_vars

(* The formulas of the claim, in exact arithmetic *)
Rounded(num, den) == (2 * num + den) \div (2 * den)       \* nearest, ties upwards
Clean(assets) ==
  {i \in 1..Len(assets) : validateAsset(assets[i], valIn.agreements).violations = <<>>}
Criticals(assets) ==
  LET found(i) == validateAsset(assets[i], valIn.agreements).violations
      count[i \in 0..Len(assets)] ==
        IF i = 0 THEN 0
        ELSE count[i - 1]
               + Cardinality({n \in 1..Len(found(i)) : found(i)[n].severity = "critical"})
  IN count[Len(assets)]
ObeysFormulas(stats, assets) ==
  /\ stats.totalAssets = Len(assets)
  /\ stats.compliantAssets = Cardinality(Clean(assets))
  /\ stats.compliancePercentage =
       IF Len(assets) = 0 THEN 0 ELSE Rounded(100 * Cardinality(Clean(assets)), Len(assets))

(* C22: for any assets and agreements the overview has compliantAssets +   *)
(* nonCompliantAssets = totalAssets, compliantAssets is the number of      *)
(* assets with zero violations, criticalViolations the number of critical  *)
(* violations over all assets, compliancePercentage = round(100 *          *)
(* compliant / total), or 0 when total is 0, and each per-environment      *)
(* entry obeys the same formulas over that environment's assets.           *)
C22_OverviewFormulas ==
  valOut # <<>> =>
    LET overall == valOut[1].overall
    IN /\ overall.compliantAssets + overall.nonCompliantAssets = overall.totalAssets
       /\ ObeysFormulas(overall, valIn.assets)
       /\ overall.criticalViolations = Criticals(valIn.assets)
       /\ \A k \in 1..Len(valOut[1].byEnvironment) :
             LET entry == valOut[1].byEnvironment[k]
             IN ObeysFormulas(entry, SelectSeq(valIn.assets,
                                LAMBDA a : a.environmentId = entry.environmentId))

------------------------------------------------------------------------------

(* validateAsset on lists of requirements: SpecValidateLists draws         *)
(* agreements with no, one or two requirements, with or without the field  *)
(* requiredTags.                                                           *)
UntaggedRequirement == [scope |-> "all", severity |-> "critical"]
RequirementListsOpen ==
  { <<>>, TwoRequirements, <<UntaggedRequirement>>,
    <<TwoRequirements[1], UntaggedRequirement>>,
    <<[scope |-> "marketing.*.*", severity |-> "high"]>> }
ReachesOpen ==
  { [environments |-> <<"e1">>],
    [environments |-> <<"e1">>, shares |-> <<"sales">>],
    [environments |-> <<"e2">>, shares |-> <<"sales">>] }
AgreementShapesOpen ==
  {g @@ [parsedRequirements |-> q] : g \in ReachesOpen, q \in RequirementListsOpen}

InitValidateListsInputs ==
  /\ valIn \in [asset : ValidatedAssets,
                agreements : {WithIds(q) : q \in SeqsUpTo(AgreementShapesOpen, MaxAgreements)}]
  /\ valOut = <<>>

InitValidateLists ==
  InitMain /\ InitLimiter /\ InitSelect /\ InitList /\ InitFetch /\ InitStore /\ InitValidateListsInputs /\ InitRoutes

SpecValidateLists == InitValidateLists /\ [][RunValidation]_vars

(* The order of the violations of validateAsset, lines 22-68: the entries  *)
(* <<i, j, n>> (agreement i of the list, its requirement j, required tag n *)
(* of that requirement) that raise a violation, in lexicographic order     *)
ListedTags(req) == IF Has(req, "requiredTags") THEN req.requiredTags ELSE <<>>
Raised(i, j, n) ==
  LET agreement == valIn.agreements[i]
      req == agreement.parsedRequirements[j]
  IN EntryViolations(valIn.asset, agreement, req, req.requiredTags[n])
RaisingEntries ==
  {t \in UNION {UNION {{<<i, j, n>> :
                          n \in Indices(ListedTags(valIn.agreements[i].parsedRequirements[j]))} :
                         j \in Indices(ListedRequirements(valIn.agreements[i]))} :
                  i \in Indices(valIn.agreements)} :
     /\ Applicable(valIn.agreements[t[1]])
     /\ ScopeCovers(valIn.agreements[t[1]].parsedRequirements[t[2]])
     /\ Raised(t[1], t[2], t[3]) # <<>>}
Before(t, u) ==
  \/ t[1] < u[1]
  \/ t[1] = u[1] /\ t[2] < u[2]
  \/ t[1] = u[1] /\ t[2] = u[2] /\ t[3] < u[3]
Place(t) == Cardinality({u \in RaisingEntries : Before(u, t)}) + 1
InInputOrder(violations) ==
  /\ Len(violations) = Cardinality(RaisingEntries)
  /\ \A t \in RaisingEntries : violations[Place(t)] = Raised(t[1], t[2], t[3])[1]
ReturnedResult(result) == Has(result, "violations")

(* C23: validateAsset reads only its two arguments and leaves both         *)
(* unchanged, and the same asset and agreements always give the same       *)
(* violations in the same order: by agreement, then by requirement, then   *)
(* by required-tag entry, each in the order of the input.                  *)
C23_ValidateAssetPure ==
  [][valOut' # valOut =>
       /\ valIn' = valIn
       /\ ReturnedResult(valOut'[1]) => InInputOrder(valOut'[1].violations)]_vars

(* C23 witness: a result whose violations come from two agreements, from   *)
(* two requirements of one agreement and from two entries of one of them   *)
C23_Witness ==
  /\ valOut # <<>>
  /\ ReturnedResult(valOut[1])
  /\ \E t, u, w, x \in RaisingEntries :
        /\ t[1] # u[1]
        /\ u[1] = w[1] /\ u[2] # w[2]
        /\ w[1] = x[1] /\ w[2] = x[2] /\ w[3] # x[3]

(* C24: given an applicable agreement with a requirement that has no       *)
(* requiredTags field, validateAsset returns normally and the result holds *)
(* no violation for that requirement (its violations are those of the      *)
(* other requirements).                                                    *)
HasUntagged(agreement) ==
  \E j \in Indices(ListedRequirements(agreement)) :
     ~Has(agreement.parsedRequirements[j], "requiredTags")
C24_MissingRequiredTagsSkipped ==
  (valOut # <<>> /\ \E i \in Indices(valIn.agreements) :
                      Applicable(valIn.agreements[i]) /\ HasUntagged(valIn.agreements[i]))
    => /\ ReturnedResult(valOut[1])
       /\ InInputOrder(valOut[1].violations)

------------------------------------------------------------------------------

(* Every remote call of a crawl eventually returns or fails: the await of  *)
(* a running crawl is eventually resumed, with one outcome or the other.   *)
CrawlStep(c) ==
  \/ ListCatalogsOk(c) \/ ListCatalogsFail(c)
  \/ ListSchemasOk(c) \/ ListSchemasFail(c)
  \/ \E failed \in SUBSET AssetTypes : FetchAssetsSettled(c, failed)

SpecFair == Init /\ [][Next]_vars /\ \A c \in CrawlIds : WF_vars(CrawlStep(c))

Loading(e) == getLoadingStatus(e).isLoading
Ended(c) == crawls[c].pc = "done"
Marked(c) == \E e \in DOMAIN activeRequests : activeRequests[e] = c
(* getAllShareTables starts the idle crawl of the lowest number, so the    *)
(* crawls started later than c are those of a higher number.               *)
StartedAfter(c) ==
  {d \in CrawlIds : d > c /\ crawls[d].pc # "idle" /\ crawls[d].env = crawls[c].env}

(* C25: when every remote call eventually returns or fails, every started  *)
(* crawl eventually ends: its in-flight marker is removed, the progress    *)
(* record of its environment eventually shows isLoading = false, and after *)
(* the crawl has ended the record shows isLoading = true again only when a *)
(* new crawl, one started later than it, has started.                      *)
C25_CrawlEventuallyEnds ==
  \A c \in CrawlIds :
     /\ Running(c) ~> (Ended(c) /\ ~Marked(c))
     /\ Running(c) ~> (Ended(c) /\ ~Loading(crawls[c].env))
     /\ [](Ended(c) /\ Loading(crawls[c].env) => StartedAfter(c) # {})

------------------------------------------------------------------------------

(* The per-catalog publication, lines 733-740 and 758-765: the step in     *)
(* which crawl c leaves a catalog it has finished, or ends, and stores its *)
(* array under all_assets                                                  *)
PublicationStep(c) ==
  /\ crawls'[c] # crawls[c]
  /\ crawls'[c].ci # crawls[c].ci \/ Ended(c)'
  /\ ~ListSchemasFail(c)
  /\ ~ListCatalogsFail(c)

(* the catalogs crawl c has finished: those before the current one, or all *)
(* of them once it has returned                                            *)
FinishedCatalogs(c) ==
  {crawls[c].catalogsToScan[i] :
     i \in 1..(IF Ended(c) THEN Len(crawls[c].catalogsToScan) ELSE crawls[c].ci - 1)}

OnlyFinished(e) ==
  \A i \in 1..Len(CachedAssets(e)) :
     CachedAssets(e)[i].catalog_name \in FinishedCatalogs(assetsEntry[e].ref)

(* C26: the asset list readable from the all_assets entry of an            *)
(* environment changes only at a per-catalog publication step of a crawl   *)
(* of that environment (between two publications every reader sees the     *)
(* same list), and it holds only assets of catalogs whose schemas have all *)
(* been processed.                                                         *)
C26_PublishedListStable ==
  [][\A e \in Envs :
       e \in DOMAIN assetsEntry' =>
         /\ (e \in DOMAIN assetsEntry /\ CachedAssets(e)' # CachedAssets(e))
               => \E c \in CrawlIds : crawls[c].env = e /\ PublicationStep(c)
         /\ OnlyFinished(e)']_vars

------------------------------------------------------------------------------

(* The schema loop of one catalog, lines 658-730, call by call: SpecFetch  *)
(* runs the loop over the schemas of catalog sales of e1.  For each schema *)
(* the loop starts listTables, listVolumes, listFunctions and listModels   *)
(* and awaits Promise.all of the four.  `outstanding` holds the calls      *)
(* started and not yet settled, as <<schema index, asset type>>; `failed`  *)
(* the asset types of the awaited schema whose call caught its error and   *)
(* returned [].                                                            *)

MaxSchemas == 2      \* schemas in limitedSchemas

FourCalls(s) == {<<s, type>> : type \in AssetTypes}

(* the for loop goes on: start the calls of the next schema, or leave *)
NextSchema(f) ==
  IF f.si < Len(f.limitedSchemas)
  THEN [f EXCEPT !.si = f.si + 1, !.failed = {},
                 !.outstanding = f.outstanding \cup FourCalls(f.si + 1)]
  ELSE [f EXCEPT !.pc = "done", !.failed = {}]

BeginSchemas(n) ==
  /\ fetch.pc = "idle"
  /\ fetch' = NextSchema([fetch EXCEPT !.pc = "awaiting",
                                       !.limitedSchemas = [i \in 1..n |-> "s" \o ToString(i)]])
  /\ UNCHANGED <<mainVars, consecutiveErrors, rlVars, storeVars, selVars, listVars, valVars, routeVars>>

(* One call settles.  listTables rejects when its request fails, and then  *)
(* Promise.all rejects at once: the catch of line 725 runs and the loop    *)
(* goes on while the other calls of the schema are still outstanding.  The *)
(* other three return [] on an error.  When the last of the four settles,  *)
(* Promise.all resolves and lines 669-723 push the records.                *)
CallSettles(s, type, ok) ==
  /\ <<s, type>> \in fetch.outstanding
  /\ LET left == fetch.outstanding \ {<<s, type>>}
         f == [fetch EXCEPT !.outstanding = left]
         failed == IF ok THEN fetch.failed ELSE fetch.failed \cup {type}
     IN fetch' =
          IF fetch.pc = "awaiting" /\ s = fetch.si
          THEN IF type = "table" /\ ~ok THEN NextSchema(f)
               ELSE IF FourCalls(s) \cap left = {}
               THEN NextSchema([f EXCEPT !.allAssets =
                                  f.allAssets \o SchemaAssets("e1", "sales",
                                                              f.limitedSchemas[s], failed)])
               ELSE [f EXCEPT !.failed = failed]
          ELSE f
  /\ UNCHANGED <<mainVars, consecutiveErrors, rlVars, storeVars, selVars, listVars, valVars, routeVars>>

NextFetch ==
  \/ \E n \in 0..MaxSchemas : BeginSchemas(n)
  \/ \E s \in 1..MaxSchemas, type \in AssetTypes, ok \in BOOLEAN : CallSettles(s, type, ok)

SpecFetch == Init /\ [][NextFetch]_vars

(* C27: within one crawl at most four remote list calls are outstanding at *)
(* any moment, and the calls of a schema are started only after the four   *)
(* asset-type calls of the previous schema have all settled: the           *)
(* outstanding calls are never those of two schemas.                       *)
C27_FourCallsAtMost ==
  /\ Cardinality(fetch.outstanding) <= 4
  /\ \A a, b \in fetch.outstanding : a[1] = b[1]

------------------------------------------------------------------------------

(* C28: the in-flight marker of an environment exists exactly while a      *)
(* crawl for that environment is running (it is registered when the crawl  *)
(* starts and removed when it ends, by success or by failure), and the end *)
(* of one crawl never removes the marker of another crawl that is still    *)
(* running.                                                                *)
MarkerWhileRunning ==
  \A e \in Envs : e \in DOMAIN activeRequests <=> RunningFor(e) # {}
C28_MarkerExactlyWhileRunning ==
  [][/\ MarkerWhileRunning'
     /\ \A c, d \in CrawlIds :
           (Running(c) /\ Ended(c)' /\ Running(d)' /\ Marked(d)) => Marked(d)']_vars

------------------------------------------------------------------------------

(* the records of the asset types whose fetch did not fail, for the schema *)
(* crawl c is fetching                                                     *)
OtherTypesAssets(c, failed) ==
  SchemaAssets(crawls[c].env, crawls[c].catalogsToScan[crawls[c].ci],
               crawls[c].limitedSchemas[crawls[c].si], failed)

(* C29: when exactly one of the four asset-type fetches of a schema fails, *)
(* only that asset type yields nothing for the schema: the assets of the   *)
(* other three types are still added to the crawl's list.                  *)
C29_OneTypeFailsOthersAdded ==
  [][\A c \in CrawlIds, type \in AssetTypes :
       (crawls'[c] # crawls[c] /\ FetchAssetsSettled(c, {type}))
         => crawls'[c].allAssets = crawls[c].allAssets \o OtherTypesAssets(c, {type})]_vars

------------------------------------------------------------------------------

(* C30: the progress record that getLoadingStatus returns for an           *)
(* environment changes only as the effect of a step of a crawl of that     *)
(* environment; no other operation (a status read, a validation request,   *)
(* a clear-cache, a crawl of another environment) changes it.              *)
C30_StatusChangedByCrawlOnly ==
  [][\A e \in Envs :
       getLoadingStatus(e)' # getLoadingStatus(e)
         => \E c \in CrawlIds : crawls[c].env = e /\ crawls'[c] # crawls[c]]_vars

------------------------------------------------------------------------------

(* C31: two concurrent calls of the same cached list operation with the    *)
(* same key, made while no valid entry exists, issue exactly one remote    *)
(* request, the second call awaiting the first one's result: no two calls  *)
(* of an operation are in their own remote request at the same time.       *)
C31_ConcurrentListCallsShareRequest ==
  \A j, k \in ListCallIds :
     (j < k /\ listCalls[j].op = listCalls[k].op)
       => ~(listCalls[j].pc = "requesting" /\ listCalls[k].pc = "requesting")

------------------------------------------------------------------------------

(* A crawl that has completed: it returned after its loop (lines 749-775), *)
(* not from the outer catch; its catalogsToScan is then not empty, as the  *)
(* remote listing of the model is not.                                     *)
Completed(c) == Ended(c) /\ crawls[c].catalogsToScan # <<>>

(* C32: when two crawls for the same environment both complete, the        *)
(* all_assets entry afterwards holds the result of the crawl that          *)
(* completed last, whichever of the two started first: the completion of a *)
(* crawl after another crawl of its environment has completed stores its   *)
(* own list under all_assets, and no later step of an ended crawl stores   *)
(* another list there.                                                     *)
C32_LastCompletionWins ==
  [][/\ \A c, d \in CrawlIds :
          (c # d /\ crawls[d].env = crawls[c].env /\ Completed(d) /\ Running(c) /\ Completed(c)')
            => /\ crawls[c].env \in DOMAIN assetsEntry'
               /\ assetsEntry'[crawls[c].env].ref = c
               /\ CachedAssets(crawls[c].env)' = crawls'[c].allAssets
               /\ \A i \in 1..Len(calls') :
                     (calls'[i].ref = c /\ calls[i].resolved # calls'[i].resolved)
                       => calls'[i].result = CachedAssets(crawls[c].env)'
     /\ \A e \in Envs :
          (RunningFor(e) = {} /\ e \in DOMAIN assetsEntry /\ e \in DOMAIN assetsEntry')
            => assetsEntry'[e] = assetsEntry[e] /\ CachedAssets(e)' = CachedAssets(e)]_vars

(* C32 witness: both crawls have completed and the entry holds the list of *)
(* crawl 1, which started first and completed last                         *)
C32_Witness ==
  /\ Completed(1) /\ Completed(2)
  /\ "e1" \in DOMAIN assetsEntry
  /\ assetsEntry["e1"].ref = 1
  /\ crawls[1].allAssets # crawls[2].allAssets

------------------------------------------------------------------------------

(* the schemas of a catalog that a crawl may fetch assets from: the first  *)
(* MAX_SCHEMAS_PER_CATALOG of the listing that listSchemas returns         *)
FirstSchemas(cat) ==
  {RemoteSchemas(cat)[i] : i \in 1..Min(MAX_SCHEMAS_PER_CATALOG, Len(RemoteSchemas(cat)))}

(* C33: for every selected catalog a crawl fetches assets from at most     *)
(* MAX_SCHEMAS_PER_CATALOG schemas, namely the first ones of the filtered  *)
(* schema listing, in listing order: the schema a crawl is fetching is the *)
(* si-th of the listing with si within the cap, and every asset of its     *)
(* list comes from one of the first schemas of its catalog.                *)
C33_SchemasCapped ==
  \A c \in CrawlIds :
     /\ crawls[c].pc = "fetchAssets" =>
          LET listing == RemoteSchemas(crawls[c].catalogsToScan[crawls[c].ci])
          IN /\ crawls[c].si <= MAX_SCHEMAS_PER_CATALOG
             /\ crawls[c].si <= Len(listing)
             /\ crawls[c].limitedSchemas[crawls[c].si] = listing[crawls[c].si]
     /\ \A i \in 1..Len(crawls[c].allAssets) :
           crawls[c].allAssets[i].schema_name
             \in FirstSchemas(crawls[c].allAssets[i].catalog_name)

(* C33 witness: a crawl has returned with the assets of the first two      *)
(* schemas of sales, whose listing holds three                             *)
C33_Witness ==
  \E c \in CrawlIds :
     /\ Ended(c)
     /\ Len(RemoteSchemas("sales")) > MAX_SCHEMAS_PER_CATALOG
     /\ {crawls[c].allAssets[i].schema_name : i \in 1..Len(crawls[c].allAssets)} = {"s1", "s2"}

------------------------------------------------------------------------------

(* GET /shares, routes/environments.js lines 235-239 and 336-355: the      *)
(* summary of a catalog, computed from the list that getAllShareTables     *)
(* resolved to                                                             *)
scannedCatalogs(allShareAssets) ==
  {allShareAssets[i].catalog_name : i \in 1..Len(allShareAssets)}
ShareSummary(name, allShareAssets) ==
  [name |-> name,
   tableCount |-> Len(SelectSeq(allShareAssets, LAMBDA t : t.catalog_name = name)),
   fullyScanned |-> name \in scannedCatalogs(allShareAssets)]

(* the calls that GET /shares made and that started a crawl, once resolved *)
SharesCalls ==
  {i \in 1..Len(calls) : /\ calls[i].resolved
                         /\ calls[i].how = "started"
                         /\ crawls[calls[i].ref].endpoint = "shares"}

(* C34: a share summary returned by GET /shares has fullyScanned = true    *)
(* only if every schema of its catalog was scanned by the crawl; a catalog *)
(* cut by the MAX_SCHEMAS_PER_CATALOG cap is reported with fullyScanned =  *)
(* false.                                                                  *)
C34_FullyScannedMeansAllSchemas ==
  \A i \in SharesCalls :
     \A name \in {RemoteCatalogs(calls[i].env)[k] : k \in 1..Len(RemoteCatalogs(calls[i].env))} :
        ShareSummary(name, calls[i].result).fullyScanned
          => Len(RemoteSchemas(name)) <= MAX_SCHEMAS_PER_CATALOG

------------------------------------------------------------------------------

(* A handler that computed its result from a partial list: its             *)
(* getAllShareTables call took the cache branch while the crawl that had   *)
(* published the entry was still running                                   *)
FromPartialList(h) ==
  /\ handlers[h].served = "computed"
  /\ calls[handlers[h].call].how = "cached"
  /\ calls[handlers[h].call].live

(* The result of h is still the fresh validationCache entry of its route   *)
(* although the crawl whose partial list it was computed from has ended:   *)
(* the next request of that route is answered with it (lines 84-89)        *)
ServedStale(h) ==
  /\ FromPartialList(h)
  /\ ~Running(calls[handlers[h].call].ref)
  /\ CacheFresh(handlers[h].route)
  /\ validationCache[handlers[h].route].data = handlers[h].response

(* C35: a validation result is stored in validationCache only if it was    *)
(* computed from the asset lists of finished crawls, and a result computed *)
(* from a partial list published by a crawl that is still running is never *)
(* served after that crawl has completed.                                  *)
C35_NoResultFromPartialList ==
  \A h \in HandlerIds : ~FromPartialList(h) /\ ~ServedStale(h)

(* Crawl c holds asset data that a clear has since dropped from the cache. *)
(* The progress record of an environment is written when its crawl has     *)
(* listed the catalogs (line 637) and again with every publication (lines  *)
(* 734, 759); only clearCache removes it.  A running crawl whose           *)
(* environment has no progress record was therefore cleared after its last *)
(* publication, and the assets of the catalogs it had finished by then     *)
(* were fetched before that clear.                                         *)
FetchedBeforeClear(c) ==
  SelectSeq(crawls[c].allAssets, LAMBDA a : a.catalog_name \in FinishedCatalogs(c))

HoldsClearedData(c) ==
  /\ Running(c)
  /\ crawls[c].pc # "listCatalogs"
  /\ crawls[c].env \notin DOMAIN metadata
  /\ FetchedBeforeClear(c) # <<>>

(* the all_assets entry of the environment of c is the list of c *)
PublishedBy(c) ==
  /\ crawls[c].env \in DOMAIN assetsEntry
  /\ assetsEntry[crawls[c].env].ref = c

(* C36: after clear-cache has returned no cache entry holds asset data     *)
(* fetched from the remote service before the clear, even if a crawl was   *)
(* running when the clear happened: a crawl that holds such data never     *)
(* becomes the source of the all_assets entry.                             *)
C36_NothingFromBeforeClear ==
  [][\A c \in CrawlIds : HoldsClearedData(c) => ~PublishedBy(c)']_vars

(* The step in which listing the catalogs fails for crawl c: the remote    *)
(* listing is never empty, so a crawl that returns from listCatalogs with  *)
(* nothing to scan has been through the outer catch (lines 766-773)        *)
ListingFailed(c) ==
  /\ crawls[c].pc = "listCatalogs"
  /\ crawls'[c].pc = "done"
  /\ crawls'[c].catalogsToScan = <<>>

(* C37: getAllShareTables does not reject when listing the catalogs fails: *)
(* every call awaiting the crawl resolves to the empty list, the progress  *)
(* record has isLoading=false and the error message, and no all_assets     *)
(* entry is stored and no fetch_assets key is left, so that the crawl      *)
(* leaves nothing that keeps the next call from starting a new crawl.      *)
C37_ListingFailureResolvesEmpty ==
  [][\A c \in CrawlIds :
       ListingFailed(c) =>
         /\ \A i \in 1..Len(calls) :
               (calls[i].ref = c /\ ~calls[i].resolved) =>
                  calls'[i].resolved /\ calls'[i].result = <<>>
         /\ metadata'[crawls[c].env] = ErrorMetadata
         /\ ~metadata'[crawls[c].env].isLoading
         /\ assetsEntry' = assetsEntry
         /\ crawls[c].env \notin DOMAIN activeRequests']_vars

(* a call resolved to the empty list by a failed listing, and the next     *)
(* call, which has started a new crawl                                     *)
C37_Witness ==
  /\ Len(calls) = 2
  /\ calls[1].how = "started" /\ calls[1].resolved /\ calls[1].result = <<>>
  /\ "e1" \in DOMAIN metadata /\ metadata["e1"] = ErrorMetadata
  /\ "e1" \notin DOMAIN assetsEntry
  /\ calls[2].how = "started" /\ ~calls[2].resolved

(* C38: under any sequence and interleaving of requests through            *)
(* rateLimitedRequest, consecutiveErrors never exceeds the retry budget of *)
(* 3, so that the adaptive spacing never exceeds 4 * MIN_REQUEST_INTERVAL. *)
C38_ConsecutiveErrorsBounded ==
  /\ consecutiveErrors <= DEFAULT_RETRIES
  /\ MIN_REQUEST_INTERVAL * (1 + consecutiveErrors) <= 4 * MIN_REQUEST_INTERVAL

-----------------------------------------------------------------------------
(* The agreements store and the central volume: GET /agreements, the last  *)
(* segment of POST /agreements/ingest and DELETE /agreements/:id            *)

MaxListed == 3       \* GET /agreements requests per behaviour

(* line 51: the id of a new agreement is one no stored agreement has *)
IdPool == <<"a1", "a2", "a3", "a4">>
FreshId(store) ==
  LET free == {k \in 1..Len(IdPool) : \A i \in 1..Len(store) : store[i].id # IdPool[k]}
  IN IdPool[CHOOSE k \in free : \A j \in free : k <= j]
WithId(data, store) ==
  [k \in DOMAIN data \cup {"id"} |-> IF k = "id" THEN FreshId(store) ELSE data[k]]

(* lines 71-93: the agreement data built from a file of the volume *)
VolumeAgreement(shareName) ==
  [environments |-> <<"current">>, shares |-> <<shareName>>, source |-> "volume",
   sourceFile |-> shareName, parsedRequirements |-> <<TagRequirement>>]

(* lines 20-117: the agreements returned and the cache left behind.  `ok`  *)
(* tells whether the requests to the service succeed (lines 113-116).      *)
loadAllAgreementsFromVolume(ok) ==
  IF now - volumeLoadCache.timestamp < VOLUME_CACHE_TTL
  THEN [data |-> volumeLoadCache.data, cache |-> volumeLoadCache]
  ELSE IF ok
  THEN LET loaded == [i \in 1..Len(volumeFiles) |-> VolumeAgreement(volumeFiles[i])]
       IN [data |-> loaded, cache |-> [data |-> loaded, timestamp |-> now]]
  ELSE [data |-> <<>>, cache |-> volumeLoadCache]

(* lines 324-336: add each volume agreement whose share no stored          *)
(* agreement names                                                         *)
RECURSIVE AddVolumeAgreements(_, _)
AddVolumeAgreements(store, volumeAgreements) ==
  IF volumeAgreements = <<>> THEN store
  ELSE LET volAgreement == Head(volumeAgreements)
           alreadyExists == \E i \in 1..Len(store) :
                               InList(volAgreement.shares[1], store[i].shares)
       IN AddVolumeAgreements(IF alreadyExists THEN store
                              ELSE Added(store, WithId(volAgreement, store)),
                              Tail(volumeAgreements))

(* GET /agreements, lines 316-349 *)
GetAgreements(ok) ==
  /\ Len(listed) < MaxListed
  /\ IF ~volumeAgreementsLoaded
     THEN LET loaded == loadAllAgreementsFromVolume(ok)
          IN /\ agreements' = AddVolumeAgreements(agreements, loaded.data)
             /\ volumeLoadCache' = loaded.cache
             /\ volumeAgreementsLoaded' = TRUE
     ELSE UNCHANGED <<agreements, volumeLoadCache, volumeAgreementsLoaded>>
  /\ listed' = Append(listed, agreements')
  /\ UNCHANGED <<volumeFiles, now, assetsEntry, metadata, activeRequests, crawls, calls>>
  /\ UNCHANGED <<consecutiveErrors, rlVars, selVars, listVars, valVars, routeVars, fetchVars>>

(* lines 617-638: the agreement data POST /agreements/ingest builds from   *)
(* the file of a share, with or without required tags                      *)
Ingested(shareName, parsedRequirements) ==
  [environments |-> <<"e1">>, shares |-> <<shareName>>, source |-> "ingested",
   sourceFile |-> shareName, parsedRequirements |-> parsedRequirements]
IngestInputs == {Ingested("sales", list) : list \in {<<TagRequirement>>, <<>>}}

(* Time passes; the clock matters once volumeLoadCache has been filled *)
TickVolume ==
  /\ now < MaxTime
  /\ volumeLoadCache.timestamp >= 0
  /\ now' = now + 1
  /\ UNCHANGED <<agreements, assetsEntry, metadata, activeRequests, crawls, calls, notMain>>

NextStore ==
  \/ \E ok \in BOOLEAN : GetAgreements(ok)
  \/ \E data \in IngestInputs : AddAgreement(WithId(data, agreements))
  \/ \E id \in {IdPool[k] : k \in 1..Len(IdPool)} : DeleteAgreement(id)
  \/ TickVolume

SpecStore == Init /\ [][NextStore]_vars

Stored(store) == {store[i] : i \in 1..Len(store)}

(* C39: after DELETE /agreements/:id has succeeded, no later response of   *)
(* GET /agreements contains an agreement for the share of the deleted      *)
(* agreement unless a later request creates or ingests one again: a GET    *)
(* request adds no agreement of the volume whose file has been deleted.    *)
C39_DeletedStaysDeleted ==
  [][listed' # listed =>
       \A a \in Stored(Last(listed')) :
          (Source(a) = <<"volume">> /\ a \notin Stored(agreements))
             => InList(a.sourceFile, volumeFiles')]_vars

(* a step of addAgreement: the store changes and does not shrink *)
AgreementAdded ==
  /\ agreements' # agreements
  /\ Len(agreements') >= Len(agreements)

StoredIds == {agreements[i].id : i \in 1..Len(agreements)}

(* C40: addAgreement never modifies or replaces an agreement that is       *)
(* already in the store: every agreement present before the call is        *)
(* present and unchanged after it, and the agreement the call returns,     *)
(* the one it stored, has an id that was not in the store before.          *)
C40_AddAgreementKeepsOthers ==
  [][AgreementAdded =>
       /\ \A i \in 1..Len(agreements) :
             \E j \in 1..Len(agreements') : agreements'[j] = agreements[i]
       /\ \E j \in 1..Len(agreements') :
             /\ agreements'[j].id \notin StoredIds
             /\ \A i \in 1..Len(agreements) : agreements'[j] # agreements[i]]_vars

====
